---- MODULE Spec2Model ----
(***************************************************************************)
(* A model of the kasm scan orchestration engine (backend/scanner):       *)
(* ExecuteSubdomainScan and the phases it drives (saveSubdomains,         *)
(* ExecuteURLScan / saveURLScanResults, ExecuteTechScan /                  *)
(* saveTechnologies), over a model of the relational store (SQLite        *)
(* through GORM) and of the scan rows the handlers create.                *)
(*                                                                         *)
(* Hostnames are sequences of labels ("api.example.com" is                 *)
(* <<"api","example","com">>), so that public-suffix parsing and IP        *)
(* parsing are computed on their structure.                                *)
(***************************************************************************)
EXTENDS Integers, Sequences, FiniteSets, TLC

(***************************************************************************)
(* Bounds of the model.                                                    *)
(***************************************************************************)
\* Store calls that may return an error in one behaviour.
MaxFaults == 1
\* Results the crawl engine delivers to its OnResult callback in one scan.
MaxCrawlResults == 2
\* The same, for each of two scans that run at once.
MaxConcurrentResults == 1
\* URLs on which the fingerprint provider detects something in one scan.
MaxDetections == 2

(***************************************************************************)
(* The universe of hostnames, paths and names the providers draw from.     *)
(***************************************************************************)
Apex == <<"example", "com">>
Api == <<"api", "example", "com">>
\* "example.com.evil.net": contains the root domain as a substring.
Evil == <<"example", "com", "evil", "net">>
IPv4Host == <<"10", "0", "0", "1">>
IPv6Host == <<"::1">>

\* The single root domain row (models.RootDomain): CreateDomain stores SLD.TLD.
RootDomainName == Apex

Scans == {1, 2}

(***************************************************************************)
(* Pure helpers.                                                           *)
(***************************************************************************)
Max(S) == CHOOSE x \in S : \A y \in S : y <= x

\* The last n labels of hostname h.
Suffix(h, n) == SubSeq(h, Len(h) - n + 1, Len(h))

\* The rules of the public suffix list that matter for the universe.
PublicSuffixes == {<<"com">>, <<"net">>, <<"uk">>, <<"co", "uk">>}

\* publicsuffix.Parse: the longest matching rule, or the default rule "*"
\* (the last label); a name that is itself a suffix is an error.
PSLSuffixLen(h) ==
    LET ms == {n \in 1..Len(h) : Suffix(h, n) \in PublicSuffixes}
    IN  IF ms = {} THEN 1 ELSE Max(ms)

PSLParseFails(h) == Len(h) = 0 \/ Len(h) <= PSLSuffixLen(h)

\* A faulty variant: the first two labels, as a substring match would have it.
HostRootDomainNaive(h) == SubSeq(h, 1, 2)

\* parsedHostDomain.SLD + "." + parsedHostDomain.TLD
HostRootDomain(h) == Suffix(h, PSLSuffixLen(h) + 1)

\* net.ParseIP(s) != nil: a dotted quad of decimal octets, or an IPv6 literal.
OctetLabels == {"0", "1", "10", "255"}
IsIPv4(h) == Len(h) = 4 /\ \A i \in 1..4 : h[i] \in OctetLabels
IsIPv6(h) == Len(h) = 1 /\ h[1] \in {"::1"}
ParseIP(h) == IsIPv4(h) \/ IsIPv6(h)

EmptyMap == [h \in {} |-> 0]

\* m with key k set to v (a Go map assignment, sync.Map.Store).
MapPut(m, k, v) == [x \in DOMAIN m \cup {k} |-> IF x = k THEN v ELSE m[x]]

\* m overwritten by the entries of n.
MapMerge(m, n) == [x \in DOMAIN m \cup DOMAIN n |-> IF x \in DOMAIN n THEN n[x] ELSE m[x]]

NextID(rows) == Max({0} \cup {r.id : r \in rows}) + 1

(***************************************************************************)
(* Scan templates (models.ScanTemplate) and the configuration resolver.    *)
(* A configuration blob is the JSON text of a models.ScanSectionConfig:    *)
(* empty, unparsable, or parsed into the section's enable flag, the state  *)
(* of the phase's tool entry and the options that entry gives.             *)
(***************************************************************************)
Blob(kind, enabled, tool, opts) ==
    [kind |-> kind, enabled |-> enabled, tool |-> tool, opts |-> opts]

EmptyBlob == Blob("empty", FALSE, "absent", EmptyMap)
MalformedBlob == Blob("malformed", FALSE, "absent", EmptyMap)

Template(sub, url, tech, shots) ==
    [isNil |-> FALSE, sub |-> sub, url |-> url,
     TechDetectEnabled |-> tech, ScreenshotEnabled |-> shots]

\* StartScan passes a nil template when the request names none.
NoTemplate ==
    [isNil |-> TRUE, sub |-> EmptyBlob, url |-> EmptyBlob,
     TechDetectEnabled |-> FALSE, ScreenshotEnabled |-> FALSE]

\* Discovery with options of its own; no crawl, no fingerprinting.
DiscoveryTemplate ==
    Template(Blob("json", TRUE, "enabled", [k \in {"maxEnumerationTime"} |-> 7]),
             Blob("json", FALSE, "enabled", EmptyMap), FALSE, FALSE)

\* No discovery configuration (the defaults apply); the crawl tool is absent.
DefaultsTemplate ==
    Template(EmptyBlob, Blob("json", TRUE, "absent", EmptyMap), FALSE, FALSE)

\* Discovery disabled; an unparsable crawl configuration (the defaults apply).
CrawlTemplate ==
    Template(Blob("json", FALSE, "enabled", EmptyMap), MalformedBlob, FALSE, FALSE)

\* Fingerprinting only.
TechTemplate ==
    Template(Blob("json", TRUE, "absent", EmptyMap),
             Blob("json", TRUE, "disabled", EmptyMap), TRUE, FALSE)

\* Screenshots only.
ShotsTemplate ==
    Template(Blob("json", TRUE, "disabled", EmptyMap),
             Blob("json", FALSE, "absent", EmptyMap), FALSE, TRUE)

\* The crawl with a depth of its own, with screenshots.
CrawlShotsTemplate ==
    Template(Blob("json", FALSE, "enabled", EmptyMap),
             Blob("json", TRUE, "enabled", [k \in {"maxDepth"} |-> 2]), FALSE, TRUE)

\* An unparsable discovery configuration (the defaults apply); no crawl.
MalformedTemplate ==
    Template(MalformedBlob, Blob("json", FALSE, "enabled", EmptyMap), FALSE, FALSE)

\* Discovery and crawl, both by default.
FullTemplate == Template(MalformedBlob, EmptyBlob, FALSE, FALSE)

\* The templates a request may name, for each way of starting scans.
Templates(m) ==
    CASE m = "repeat" -> {FullTemplate}
      [] m = "concurrent" -> {CrawlTemplate}
      [] m = "crawl" -> {CrawlTemplate}
      [] m = "seeds" -> {CrawlTemplate, FullTemplate}
      [] m = "handoff" -> {CrawlTemplate}
      [] m = "fingerprint" -> {TechTemplate}
      [] m = "callbacks" -> {DiscoveryTemplate}
      [] OTHER -> {DiscoveryTemplate, DefaultsTemplate, CrawlTemplate, TechTemplate,
                   ShotsTemplate, CrawlShotsTemplate, MalformedTemplate,
                   NoTemplate}

SubfinderDefaults ==
    [k \in {"threads", "timeout", "maxEnumerationTime"} |->
        CASE k = "threads" -> 10 [] k = "timeout" -> 30 [] OTHER -> 5]

KatanaDefaults ==
    [k \in {"maxDepth", "concurrency", "parallelism", "rateLimit", "timeout"} |->
        CASE k = "maxDepth" -> 3 [] k = "concurrency" -> 10 [] k = "parallelism" -> 10
          [] k = "rateLimit" -> 150 [] OTHER -> 10]

\* A faulty variant: the template decides for a subdomain scan too.
SubfinderEnabledByTemplate(scanType, blob) ==
    IF blob.kind = "json"
    THEN blob.enabled /\ blob.tool = "enabled"
    ELSE TRUE

\* subfinderEnabled after the parse of SubdomainScanConfig.
SubfinderEnabled(scanType, blob) ==
    IF scanType = "root_domain"
    THEN IF blob.kind = "json"
         THEN blob.enabled /\ blob.tool = "enabled"
         ELSE TRUE
    ELSE FALSE

\* subfinderOptions after the parse: the tool's options over the defaults.
SubfinderOptions(scanType, blob) ==
    IF SubfinderEnabled(scanType, blob) /\ blob.kind = "json"
    THEN MapMerge(SubfinderDefaults, blob.opts)
    ELSE SubfinderDefaults

\* A faulty variant: a configuration that is missing or does not parse
\* disables the crawl.
URLScanEnabledStrict(blob) == blob.kind = "json" /\ blob.enabled /\ blob.tool = "enabled"

\* A faulty variant: an enabled section without a katana entry keeps the
\* crawl enabled.
URLScanEnabledWithoutTool(blob) ==
    IF blob.kind = "json"
    THEN blob.enabled /\ blob.tool # "disabled"
    ELSE TRUE

\* urlScanEnabled after the parse of URLScanConfig.
URLScanEnabled(blob) ==
    IF blob.kind = "json"
    THEN blob.enabled /\ blob.tool = "enabled"
    ELSE TRUE

KatanaOptions(blob) ==
    IF URLScanEnabled(blob) /\ blob.kind = "json"
    THEN MapMerge(KatanaDefaults, blob.opts)
    ELSE KatanaDefaults

(***************************************************************************)
(* URLs and screenshot eligibility.                                        *)
(***************************************************************************)
URL(scheme, host, path) == [scheme |-> scheme, host |-> host, path |-> path]

\* The text after the last "." of the last path segment ("" when none).
\* The path is taken in lower case and without its query string.
PathExtension(p) ==
    CASE p = "/app.js" -> "js"
      [] p = "/APP.JS?v=1" -> "js"
      [] p = "/page?file=a.css" -> ""
      [] OTHER -> ""

ExcludedExtensions ==
    {"js", "css", "json", "xml", "txt", "pdf", "doc", "docx", "xls", "xlsx",
     "ppt", "pptx", "zip", "rar", "tar", "gz", "7z", "jpg", "jpeg", "gif",
     "png", "svg", "ico", "woff", "woff2", "ttf", "eot", "mp4", "mp3", "avi",
     "mov", "csv", "map", "yaml", "yml", "md"}

\* strings.HasSuffix(lower(url without query), "." + ext) for some excluded
\* ext: the suffix lies in the path when there is one, else in the host.
ShouldScreenshot(u) ==
    IF u.path # ""
    THEN PathExtension(u.path) \notin ExcludedExtensions
    ELSE ~(Len(u.host) > 1 /\ u.host[Len(u.host)] \in ExcludedExtensions)

\* "http://host" and "https://host" (+ path).
BothSchemes(host, path) == {URL("http", host, path), URL("https", host, path)}

(***************************************************************************)
(* State.                                                                  *)
(***************************************************************************)
VARIABLES
    mode,            \* how scans are started: "single", "repeat", "concurrent", "direct",
                     \* "crawl", "handoff", "fingerprint", "techcall", "screen",
                     \* "seeds", "callbacks"
    scanRows,        \* models.Scan rows, by scan id
    subdomains,      \* models.Subdomain rows
    endpoints,       \* models.Endpoint rows
    parameters,      \* models.Parameter rows
    technologies,    \* models.Technology rows
    subdomainTechs,  \* models.SubdomainTechnology rows
    screenshots,     \* models.Screenshot rows
    sc,              \* the locals of each scan's ExecuteSubdomainScan goroutine
    faults,          \* store calls that have returned an error so far
    crashed          \* an unrecovered panic has ended the process

store == <<subdomains, endpoints, parameters, technologies, subdomainTechs, screenshots>>
vars == <<mode, scanRows, subdomains, endpoints, parameters, technologies,
          subdomainTechs, screenshots, sc, faults, crashed>>

Terminal == {"completed", "failed"}

NoScanRow == [status |-> "none", summary |-> <<>>, completedAt |-> FALSE]

SubdomainRow(id, hostname, scan) ==
    [id |-> id, hostname |-> hostname, rootDomainID |-> 1, scan |-> scan, active |-> TRUE]

\* The goroutine of lines 651-670 has not called runSubfinder, or is over.
NoEnumeration == [state |-> "none", outcome |-> "none", found |-> {}]

\* No httpx runner of verifyActiveSubdomains exists.
NoRunner == [state |-> "none", pending |-> {}, writing |-> {}, active |-> {}]

\* The locals of a scan that has not been started.
IdleScan ==
    [pc |-> "idle", scanType |-> "root_domain", targetHost |-> Apex, tmpl |-> NoTemplate,
     subfinderEnabled |-> FALSE, urlScanEnabled |-> FALSE,
     subfinderOptions |-> SubfinderDefaults, katanaOptions |-> KatanaDefaults,
     scanErrors |-> <<>>, allSubdomains |-> {}, activeSubdomains |-> {},
     \* what runSubfinder has returned to its goroutine, and whether the
     \* deadline of ctx (line 633) has passed
     enum |-> NoEnumeration, ctxDone |-> FALSE,
     \* the httpx runner of verifyActiveSubdomains: the hostnames not yet
     \* probed, the callbacks at the write of line 290, and the map they fill
     httpx |-> NoRunner,
     activeIsNil |-> FALSE, savedSubdomainMap |-> EmptyMap,
     \* ExecuteURLScan: results delivered, results sent, hosts rejected for scope
     crawlCount |-> 0, sent |-> <<>>, rejected |-> {}, crawlerFailed |-> FALSE,
     \* the seed list given to ExecuteURLScan
     seedURLs |-> <<>>,
     \* crawlErr: Crawl has returned an error for a seed of the scan's crawl
     crawlErr |-> FALSE,
     \* the results of the callbacks that are at "resultsChan <- res", and the
     \* number of calls of close(resultsChan)
     senders |-> <<>>, closes |-> 0,
     resultsChan |-> <<>>, chanClosed |-> FALSE,
     \* saveURLScanResults (the consumer goroutine)
     saver |-> "none", existingSubdomains |-> EmptyMap, subdomainMap |-> EmptyMap,
     newSubdomainsToCreate |-> {}, endpointsToCreate |-> <<>>,
     finalEndpointsToCreate |-> <<>>, dropped |-> 0, found |-> 0, epID |-> 0, params |-> {},
     shotTasks |-> {}, captureFailed |-> FALSE,
     \* ExecuteTechScan and saveTechnologies
     urlsToScan |-> {}, resultsByURL |-> EmptyMap, techErrors |-> FALSE,
     \* what the last run of ExecuteTechScan was given, could not fetch, and detected
     techURLs |-> {}, techFailedURLs |-> {}, techDetected |-> EmptyMap,
     subdomainIDMap |-> EmptyMap, techItems |-> {}, processedTechs |-> EmptyMap,
     joinEntriesToCreate |-> <<>>,
     rowCounts |-> [subdomains |-> 0, endpoints |-> 0, parameters |-> 0],
     tx |-> [state |-> "none", subdomains |-> {}, technologies |-> {},
             subdomainTechs |-> {}, writeFailed |-> FALSE]]

\* Rows a previous scan may have left for the root domain.
InitialSubdomains ==
    { {},
      {SubdomainRow(1, Apex, 0)},
      {SubdomainRow(1, Apex, 0), SubdomainRow(2, Api, 0)} }

InitCommon ==
    /\ scanRows = [s \in Scans |-> NoScanRow]
    /\ subdomains \in InitialSubdomains
    /\ endpoints = {}
    /\ parameters = {}
    /\ technologies = {}
    /\ subdomainTechs = {}
    /\ screenshots = {}
    /\ sc = [s \in Scans |-> IdleScan]
    /\ faults = IF mode \in {"single", "direct", "crawl", "techcall"} THEN 0 ELSE MaxFaults
    /\ crashed = FALSE

Init == mode = "single" /\ InitCommon

(***************************************************************************)
(* Store calls and their failures.                                         *)
(***************************************************************************)
\* A store call returns a result (ok) or an error, at most MaxFaults errors.
MayFail(ok) == ok \/ faults < MaxFaults

\* The same for the calls of one step, given as a tuple of outcomes.
MayFailAll(oks) == faults + Cardinality({i \in DOMAIN oks : ~oks[i]}) <= MaxFaults

Charge(oks) == faults' = faults + Cardinality({i \in DOMAIN oks : ~oks[i]})

\* A faulty variant: the scan is marked completed when it is set running.
UpdateScanStatusEarly(s, status, msg, ok) ==
    scanRows' =
        IF ok
        THEN [scanRows EXCEPT ![s] =
                [status |-> IF status = "running" THEN "completed" ELSE status,
                 summary |-> IF msg # <<>> THEN msg ELSE @.summary,
                 completedAt |-> TRUE]]
        ELSE scanRows

\* A faulty variant: only a completed scan is given its completion time.
UpdateScanStatusUnstamped(s, status, msg, ok) ==
    scanRows' =
        IF ok
        THEN [scanRows EXCEPT ![s] =
                [status |-> status,
                 summary |-> IF msg # <<>> THEN msg ELSE @.summary,
                 completedAt |-> IF status = "completed" THEN TRUE ELSE @.completedAt]]
        ELSE scanRows

\* updateScanStatus: one UPDATE of the scan row; an error is only logged.
UpdateScanStatus(s, status, msg, ok) ==
    scanRows' =
        IF ok
        THEN [scanRows EXCEPT ![s] =
                [status |-> status,
                 summary |-> IF msg # <<>> THEN msg ELSE @.summary,
                 completedAt |-> IF status \in Terminal THEN TRUE ELSE @.completedAt]]
        ELSE scanRows

\* Repeated runs: the second scan is given what the first was given.
Replayed(s, field, value) == (mode = "repeat" /\ s = 2) => value = sc[1][field]

SetScan(s, rec) == sc' = [sc EXCEPT ![s] = rec]

(***************************************************************************)
(* StartScan (handlers): validates the target, creates the scan row in     *)
(* "pending" and starts ExecuteSubdomainScan on its own goroutine.         *)
(***************************************************************************)
StartScan(s) ==
    /\ ~crashed
    /\ sc[s].pc = "idle"
    /\ mode \in {"single", "direct", "crawl", "handoff", "seeds", "callbacks"} => s = 1
    /\ mode = "repeat" => (s = 1 \/ sc[1].pc = "returned")
    /\ \E tmpl \in Templates(mode),
          target \in {r.hostname : r \in subdomains} \cup {RootDomainName} :
          \E scanType \in (IF target = RootDomainName THEN {"root_domain"} ELSE {})
                          \cup (IF target \in {r.hostname : r \in subdomains}
                                THEN {"subdomain"} ELSE {}) :
             /\ Replayed(s, "targetHost", target)
             /\ Replayed(s, "scanType", scanType)
             /\ scanRows' = [scanRows EXCEPT ![s] =
                                [status |-> "pending", summary |-> <<>>, completedAt |-> FALSE]]
             /\ SetScan(s, [IdleScan EXCEPT !.pc = "exec", !.scanType = scanType,
                                            !.targetHost = target, !.tmpl = tmpl])
    /\ UNCHANGED <<mode, store, faults, crashed>>

(***************************************************************************)
(* ExecuteSubdomainScan, up to updateScanStatus(running).                  *)
(***************************************************************************)
\* A faulty variant: after a fatal violation the scan goes on to the
\* reconciler.
AfterFatalGoesOn == "save"

\* A faulty variant: after a fatal violation the scan carries on with the
\* screenshots of the existing assets.
AfterFatalRunsOn == "initshots"

\* Where a scan is after a fatal violation: the function has returned.
AfterFatal == "returned"

ExecBegin(s) ==
    /\ ~crashed
    /\ sc[s].pc = "exec"
    /\ \E ok \in BOOLEAN :
         /\ MayFail(ok)
         /\ Charge(<<ok>>)
         /\ IF sc[s].tmpl.isNil
            THEN /\ UpdateScanStatus(s, "failed", <<"Internal error: Scan template missing">>, ok)
                 /\ SetScan(s, [sc[s] EXCEPT !.pc = AfterFatal])
            ELSE /\ UpdateScanStatus(s, "running", <<>>, ok)
                 /\ SetScan(s, [sc[s] EXCEPT
                        !.pc = "initshots",
                        !.subfinderEnabled = SubfinderEnabled(sc[s].scanType, sc[s].tmpl.sub),
                        !.subfinderOptions = SubfinderOptions(sc[s].scanType, sc[s].tmpl.sub),
                        !.urlScanEnabled = URLScanEnabled(sc[s].tmpl.url),
                        !.katanaOptions = KatanaOptions(sc[s].tmpl.url)])
    /\ UNCHANGED <<mode, store, crashed>>

(***************************************************************************)
(* TakeScreenshot tasks.  A task never returns an error to its caller; it  *)
(* leaves a Screenshot row only when the capture, the file write and the   *)
(* row insert all succeeded.                                               *)
(***************************************************************************)
\* Screenshot rows in the store, over all scans.
MaxScreenshots == 1

ShotTask(u, subID, epID) == [url |-> u, subdomainID |-> subID, endpointID |-> epID]

RECURSIVE InsertScreenshots(_, _, _)
InsertScreenshots(rows, tasks, scan) ==
    IF tasks = {} THEN rows
    ELSE LET t == CHOOSE x \in tasks : TRUE
         IN  InsertScreenshots(
                 rows \cup {[id |-> NextID(rows), subdomainID |-> t.subdomainID,
                             endpointID |-> t.endpointID, url |-> t.url, scan |-> scan]},
                 tasks \ {t}, scan)

\* A faulty variant: a task leaves its row whether its capture succeeded or
\* not.
ScreenshotsTakenOnFailure(tasks, scan, done) ==
    /\ done \subseteq tasks
    /\ Cardinality(screenshots) + Cardinality(tasks) <= MaxScreenshots + 1
    /\ screenshots' = InsertScreenshots(screenshots, tasks, scan)

\* The tasks of a joined fan-out complete; those in done leave a row, the
\* others failed (navigation, timeout, directory, file write, row insert).
ScreenshotsTaken(tasks, scan, done) ==
    /\ done \subseteq tasks
    /\ Cardinality(screenshots) + Cardinality(done) <= MaxScreenshots
    /\ screenshots' = InsertScreenshots(screenshots, done, scan)

\* A faulty variant: a failed capture is collected as an error of the scan.
CaptureErrorsCollected(failed) == IF failed = {} THEN <<>> ELSE <<"Screenshot">>

\* What the failed tasks of a fan-out add to scanErrors: TakeScreenshot logs
\* its errors and its callers only log too.
CaptureErrors(failed) == <<>>

\* The locals of a scan after a fan-out of capture tasks was joined.
Captured(rec, tasks, done) ==
    [rec EXCEPT !.scanErrors = @ \o CaptureErrors(tasks \ done),
                !.captureFailed = @ \/ (tasks \ done # {})]

SubdomainTasks(rows) ==
    UNION { {ShotTask(u, r.id, 0) :
                u \in {v \in BothSchemes(r.hostname, "") : ShouldScreenshot(v)}}
            : r \in rows }

SubdomainOf(ep) == CHOOSE r \in subdomains : r.id = ep.subdomainID

\* Endpoints preloaded with their subdomain; the path gets a leading "/".
EndpointTasks(eps) ==
    UNION { {ShotTask(u, 0, e.id) :
                u \in {v \in BothSchemes(SubdomainOf(e).hostname, e.path) : ShouldScreenshot(v)}}
            : e \in {x \in eps : x.path # ""} }

(***************************************************************************)
(* ExecuteSubdomainScan: screenshots of the assets already known.          *)
(***************************************************************************)
InitialScreenshots(s) ==
    /\ ~crashed
    /\ sc[s].pc = "initshots"
    /\ IF sc[s].tmpl.ScreenshotEnabled
       THEN \E okSubs, okEps \in BOOLEAN :
              /\ MayFailAll(<<okSubs, okEps>>)
              /\ Charge(<<okSubs, okEps>>)
              /\ LET subs == IF okSubs THEN subdomains ELSE {}
                     eps  == IF okEps
                             THEN {e \in endpoints : e.subdomainID \in {r.id : r \in subs}}
                             ELSE {}
                     tasks == SubdomainTasks(subs) \cup EndpointTasks(eps)
                 IN  \E done \in SUBSET tasks :
                       /\ ScreenshotsTaken(tasks, s, done)
                       /\ SetScan(s, [Captured(sc[s], tasks, done) EXCEPT !.pc = "discover"])
       ELSE /\ SetScan(s, [sc[s] EXCEPT !.pc = "discover"])
            /\ UNCHANGED <<screenshots, faults>>
    /\ UNCHANGED <<mode, scanRows, subdomains, endpoints, parameters, technologies,
                   subdomainTechs, crashed>>

(***************************************************************************)
(* ExecuteSubdomainScan: the discovery stage.                              *)
(***************************************************************************)
\* Hostnames the enumeration provider may report besides the target.
EnumUniverse == {Api, IPv4Host, IPv6Host}

\* How a call of EnumerateSingleDomainWithCtx ends: with every result, at
\* the deadline of its context with the results so far, or with another
\* error.
EnumOutcomes == {"ok", "deadline", "error"}

\* A faulty variant: a deadline is returned as an error.
RunSubfinderDeadlineFatal(outcome, found) ==
    [subs |-> found, failed |-> outcome \in {"deadline", "error"}]

\* runSubfinder, lines 214-238: what was found is returned in every case,
\* with a nil error when the call ended by context.DeadlineExceeded.
RunSubfinder(outcome, found) == [subs |-> found, failed |-> outcome = "error"]

\* Lines 649-674: runSubfinder is called on its goroutine when the provider
\* is enabled, and is skipped otherwise.
Enumerate(s) ==
    /\ ~crashed
    /\ sc[s].pc = "discover"
    /\ sc[s].scanType = "root_domain"
    /\ sc[s].enum.state = "none"
    /\ IF sc[s].subfinderEnabled
       THEN \E outcome \in EnumOutcomes, found \in SUBSET EnumUniverse :
              /\ Replayed(s, "allSubdomains",
                          (IF RunSubfinder(outcome, found).failed THEN {} ELSE found)
                              \cup {sc[s].targetHost})
              /\ SetScan(s, [sc[s] EXCEPT !.enum = [state |-> "returned",
                                                    outcome |-> outcome, found |-> found]])
       ELSE SetScan(s, [sc[s] EXCEPT !.enum = [state |-> "skipped",
                                               outcome |-> "none", found |-> {}]])
    /\ UNCHANGED <<mode, scanRows, store, faults, crashed>>

\* Lines 659-669 and 674-681: under the mutex an error is appended and the
\* results are dropped, or the results are merged; after wg.Wait the root
\* domain is added to the candidates.
Discover(s) ==
    /\ ~crashed
    /\ sc[s].pc = "discover"
    /\ sc[s].scanType = "root_domain"
    /\ sc[s].enum.state # "none"
    /\ LET ret == RunSubfinder(sc[s].enum.outcome, sc[s].enum.found)
           failed == sc[s].enum.state = "returned" /\ ret.failed
           subs == IF sc[s].enum.state = "returned" /\ ~ret.failed THEN ret.subs ELSE {}
       IN  SetScan(s, [sc[s] EXCEPT
                  !.pc = "verify",
                  !.enum = NoEnumeration,
                  !.scanErrors = IF failed THEN Append(@, "Subfinder") ELSE @,
                  !.allSubdomains = subs \cup {sc[s].targetHost}])
    /\ UNCHANGED <<mode, scanRows, store, faults, crashed>>

\* The deadline of the context of line 633 passes while the scan is in its
\* discovery and verification stage, the only stage that is given ctx.
Expire(s) ==
    /\ ~crashed
    /\ sc[s].pc \in {"discover", "verify"}
    /\ sc[s].scanType = "root_domain"
    /\ ~sc[s].ctxDone
    /\ SetScan(s, [sc[s] EXCEPT !.ctxDone = TRUE])
    /\ UNCHANGED <<mode, scanRows, store, faults, crashed>>

\* Worker threads of the httpx runner that are in OnResult at one time (the
\* runner is given Threads: 50).
MaxThreads == 2

\* Lines 306-315: the runner is created and RunEnumeration is called; it
\* probes every hostname of the input file.
RunEnumeration(s) ==
    /\ ~crashed
    /\ mode = "callbacks"
    /\ sc[s].pc = "verify"
    /\ sc[s].httpx.state = "none"
    /\ SetScan(s, [sc[s] EXCEPT !.httpx = [state |-> "running",
                                           pending |-> sc[s].allSubdomains,
                                           writing |-> {}, active |-> {}]])
    /\ UNCHANGED <<mode, scanRows, store, faults, crashed>>

\* Lines 282-297: a worker thread of the runner calls OnResult with the
\* result of one hostname; for a host that answered, the callback goes to
\* the map write.  Nothing in the callback keeps a second worker out.
HttpxOnResult(s) ==
    /\ ~crashed
    /\ sc[s].httpx.state = "running"
    /\ Cardinality(sc[s].httpx.writing) < MaxThreads
    /\ \E h \in sc[s].httpx.pending, alive \in BOOLEAN :
         SetScan(s, [sc[s] EXCEPT
             !.httpx.pending = @ \ {h},
             !.httpx.writing = IF alive THEN @ \cup {h} ELSE @])
    /\ UNCHANGED <<mode, scanRows, store, faults, crashed>>

\* Line 290: activeSubdomains[result.Input] = struct{}{}.  While another
\* callback is in the same statement the write is a data race on a Go map:
\* the entry is stored, or it is lost, or the runtime ends the process with
\* "concurrent map writes".
HttpxOnResultAssign(s) ==
    /\ ~crashed
    /\ sc[s].httpx.state = "running"
    /\ \E h \in sc[s].httpx.writing :
         \E outcome \in (IF sc[s].httpx.writing = {h}
                          THEN {"stored"} ELSE {"stored", "lost", "fatal"}) :
            IF outcome = "fatal"
            THEN crashed' = TRUE /\ UNCHANGED sc
            ELSE /\ crashed' = crashed
                 /\ SetScan(s, [sc[s] EXCEPT
                        !.httpx.writing = @ \ {h},
                        !.httpx.active = IF outcome = "stored" THEN @ \cup {h} ELSE @])
    /\ UNCHANGED <<mode, scanRows, store, faults>>

\* Lines 697-704: the root domain is put back when verification left it out.
NeedsReAdd(verified, all, target) == target \in all /\ target \notin verified

\* verifyActiveSubdomains and the re-adding of the root domain.  On an error
\* the function returns a nil map, which becomes activeSubdomains; the
\* assignment activeSubdomains[targetHost] = struct{}{} to it panics.
Verify(s) ==
    /\ ~crashed
    /\ sc[s].pc = "verify"
    /\ \E failed \in BOOLEAN, verified \in SUBSET sc[s].allSubdomains :
         /\ failed => verified = {}
         /\ mode = "callbacks" =>
               IF failed THEN sc[s].httpx.state = "none"
               ELSE /\ sc[s].httpx.state = "running"
                    /\ sc[s].httpx.pending = {} /\ sc[s].httpx.writing = {}
                    /\ verified = sc[s].httpx.active
         /\ LET errs == IF failed THEN Append(sc[s].scanErrors, "Subdomain verification")
                        ELSE sc[s].scanErrors
                readd == NeedsReAdd(verified, sc[s].allSubdomains, sc[s].targetHost)
            IN  IF failed /\ readd
                THEN /\ crashed' = TRUE
                     /\ SetScan(s, [sc[s] EXCEPT !.pc = "panicked", !.scanErrors = errs,
                                                 !.ctxDone = FALSE,
                                                 !.activeIsNil = TRUE])
                ELSE /\ crashed' = crashed
                     /\ Replayed(s, "activeSubdomains",
                                 IF readd THEN verified \cup {sc[s].targetHost} ELSE verified)
                     /\ SetScan(s, [sc[s] EXCEPT
                            !.pc = "save", !.scanErrors = errs,
                            !.ctxDone = FALSE,
                            !.activeIsNil = failed,
                            !.activeSubdomains =
                                IF readd THEN verified \cup {sc[s].targetHost} ELSE verified])
    /\ UNCHANGED <<mode, scanRows, store, faults>>

\* The scan kinds that ExecuteSubdomainScan knows.
ScanTypes == {"root_domain", "subdomain"}

\* A call of the exported ExecuteSubdomainScan by a caller other than the two
\* handlers, for a scan row in "pending", with a scan kind the function does
\* not know.
DirectCall(s) ==
    /\ ~crashed
    /\ mode = "direct"
    /\ s = 1
    /\ sc[s].pc = "idle"
    /\ \E tmpl \in Templates(mode) :
         /\ scanRows' = [scanRows EXCEPT ![s] =
                            [status |-> "pending", summary |-> <<>>, completedAt |-> FALSE]]
         /\ SetScan(s, [IdleScan EXCEPT !.pc = "exec", !.scanType = "other",
                                        !.targetHost = RootDomainName, !.tmpl = tmpl])
    /\ UNCHANGED <<mode, store, faults, crashed>>

\* Lines 710-715: an unknown scan kind ends the scan as failed.
UnknownScanType(s) ==
    /\ ~crashed
    /\ sc[s].pc = "discover"
    /\ sc[s].scanType \notin ScanTypes
    /\ \E ok \in BOOLEAN :
         /\ MayFail(ok)
         /\ Charge(<<ok>>)
         /\ UpdateScanStatus(s, "failed", <<"Internal error: Unknown scanType">>, ok)
         /\ SetScan(s, [sc[s] EXCEPT !.pc = AfterFatal])
    /\ UNCHANGED <<mode, store, crashed>>

\* A subdomain scan: the target is the only active hostname.
TargetSubdomain(s) ==
    /\ ~crashed
    /\ sc[s].pc = "discover"
    /\ sc[s].scanType = "subdomain"
    /\ SetScan(s, [sc[s] EXCEPT !.pc = "save", !.activeSubdomains = {sc[s].targetHost}])
    /\ UNCHANGED <<mode, scanRows, store, faults, crashed>>

(***************************************************************************)
(* saveSubdomains: the persistence reconciler.                             *)
(***************************************************************************)
\* A faulty variant: a row that is there is given the inserting scan.
RECURSIVE InsertReplacing(_, _, _)
InsertReplacing(rows, hosts, scan) ==
    IF hosts = {} THEN rows
    ELSE LET h == CHOOSE x \in hosts : TRUE
             old == {r \in rows : r.hostname = h /\ r.rootDomainID = 1}
         IN  InsertReplacing(
                 IF old # {}
                 THEN (rows \ old) \cup {[r EXCEPT !.scan = scan] : r \in old}
                 ELSE rows \cup {SubdomainRow(NextID(rows), h, scan)},
                 hosts \ {h}, scan)

\* The batch INSERT ... ON CONFLICT (hostname, root_domain_id) DO NOTHING.
RECURSIVE InsertIgnore(_, _, _)
InsertIgnore(rows, hosts, scan) ==
    IF hosts = {} THEN rows
    ELSE LET h == CHOOSE x \in hosts : TRUE
         IN  InsertIgnore(
                 IF \E r \in rows : r.hostname = h /\ r.rootDomainID = 1
                 THEN rows
                 ELSE rows \cup {SubdomainRow(NextID(rows), h, scan)},
                 hosts \ {h}, scan)

\* A faulty variant: without the IP address filtering.
ModelsToCreateUnfiltered(active) == active

\* modelsToCreate: the active hostnames that do not parse as an IP address.
ModelsToCreate(active) == {h \in active : ~ParseIP(h)}

\* A faulty variant: the IDs of all rows, whatever the hostnames asked for.
IDsOfAllRows(rows, hosts) ==
    [h \in {r.hostname : r \in rows} |-> (CHOOSE r \in rows : r.hostname = h).id]

\* hostname -> ID of the rows whose hostname is among hosts.
IDsOf(rows, hosts) ==
    [h \in {r.hostname : r \in {x \in rows : x.hostname \in hosts}} |->
        (CHOOSE r \in rows : r.hostname = h).id]

\* Lines 717-730 and saveSubdomains up to its INSERT.  Create of an empty
\* slice is an error of GORM.
SaveSubdomains(s) ==
    /\ ~crashed
    /\ sc[s].pc = "save"
    /\ IF sc[s].activeSubdomains = {}
       THEN /\ SetScan(s, [sc[s] EXCEPT !.pc = "postshots"])
            /\ UNCHANGED <<subdomains, faults>>
       ELSE \E ok \in BOOLEAN :
              /\ MayFail(ok)
              /\ Charge(<<ok>>)
              /\ LET models == ModelsToCreate(sc[s].activeSubdomains)
                 IN  IF ok /\ models # {}
                     THEN /\ subdomains' = InsertIgnore(subdomains, models, s)
                          /\ SetScan(s, [sc[s] EXCEPT !.pc = "fetchids"])
                     ELSE /\ subdomains' = subdomains
                          /\ SetScan(s, [sc[s] EXCEPT
                                 !.pc = "postshots",
                                 !.savedSubdomainMap = EmptyMap,
                                 !.scanErrors = Append(@, "Subdomain Save/ID Fetch")])
    /\ UNCHANGED <<mode, scanRows, endpoints, parameters, technologies, subdomainTechs,
                   screenshots, crashed>>

\* saveSubdomains: the SELECT of the IDs of the hostnames it tried to insert.
FetchSubdomainIDs(s) ==
    /\ ~crashed
    /\ sc[s].pc = "fetchids"
    /\ \E ok \in BOOLEAN :
         /\ MayFail(ok)
         /\ Charge(<<ok>>)
         /\ SetScan(s, [sc[s] EXCEPT
                !.pc = "postshots",
                !.savedSubdomainMap =
                    IF ok THEN IDsOf(subdomains, ModelsToCreate(sc[s].activeSubdomains))
                    ELSE EmptyMap,
                !.scanErrors = IF ok THEN @ ELSE Append(@, "Subdomain Save/ID Fetch")])
    /\ UNCHANGED <<mode, scanRows, store, crashed>>

\* Screenshots of the saved subdomains, joined before the next phase.
PostScreenshots(s) ==
    /\ ~crashed
    /\ sc[s].pc = "postshots"
    /\ IF sc[s].tmpl.ScreenshotEnabled /\ DOMAIN sc[s].savedSubdomainMap # {}
       THEN LET tasks ==
                  UNION { {ShotTask(u, sc[s].savedSubdomainMap[h], 0) :
                              u \in {v \in BothSchemes(h, "") : ShouldScreenshot(v)}}
                          : h \in DOMAIN sc[s].savedSubdomainMap }
            IN  \E done \in SUBSET tasks :
                  /\ ScreenshotsTaken(tasks, s, done)
                  /\ SetScan(s, [Captured(sc[s], tasks, done) EXCEPT !.pc = "urlscan"])
       ELSE /\ SetScan(s, [sc[s] EXCEPT !.pc = "urlscan"])
            /\ UNCHANGED screenshots
    /\ UNCHANGED <<mode, scanRows, subdomains, endpoints, parameters, technologies,
                   subdomainTechs, faults, crashed>>

(***************************************************************************)
(* ExecuteURLScan: the crawl phase.  The crawl engine calls OnResult       *)
(* (processKatanaOutput) for each result; accepted results go through      *)
(* resultsChan to the saveURLScanResults goroutine.                        *)
(***************************************************************************)
\* output.Result as the callback sees it.  status 0 stands for a result
\* without a response.
RawResult(host, path, status, params) ==
    [scheme |-> "http", host |-> host, path |-> path, method |-> "GET",
     status |-> status, params |-> params]

\* With two scans at once the crawls report the same page.
ConcurrentResults == {RawResult(Api, "/a", 301, {"q"})}

RawResults ==
    { RawResult(Apex, "", 200, {}),
      RawResult(Apex, "/a", 200, {"q"}),
      RawResult(Api, "/a", 301, {"q"}),
      RawResult(Evil, "/a", 200, {"q"}),
      RawResult(Apex, "/a", 404, {}),
      RawResult(<<"com">>, "/a", 200, {}),
      RawResult(Api, "/a", 0, {}) }

\* The basic filtering of processKatanaOutput, before the scope check.
PassesBasicFilter(r) ==
    /\ r.status >= 200
    /\ r.status < 400
    /\ r.host # <<>>
    /\ ~PSLParseFails(r.host)

\* hostRootDomain == rootDomain
InScope(r, rootDomain) == HostRootDomain(r.host) = rootDomain

\* Capacity of resultsChan.
ChanCap == 100

\* "http://host" and "https://host" appended for each host of a map, in the
\* order of its range loop.
RECURSIVE HostSeeds(_)
HostSeeds(hosts) ==
    IF hosts = {} THEN <<>>
    ELSE LET h == CHOOSE x \in hosts : TRUE
         IN  <<URL("http", h, ""), URL("https", h, "")>> \o HostSeeds(hosts \ {h})

\* A faulty variant: the target is not left out of the loop over the active
\* hostnames.
SeedURLsTargetTwice(scanType, targetHost, active) ==
    HostSeeds({targetHost}) \o
        (IF scanType = "root_domain" THEN HostSeeds(active) ELSE <<>>)

\* Lines 797-813: the seeds of the crawl.
SeedURLs(scanType, targetHost, active) ==
    HostSeeds({targetHost}) \o
        (IF scanType = "root_domain" THEN HostSeeds(active \ {targetHost}) ELSE <<>>)

\* Lines 790-817 and ExecuteURLScan up to the creation of the crawler.
URLScanBegin(s) ==
    /\ ~crashed
    /\ sc[s].pc = "urlscan"
    /\ IF sc[s].urlScanEnabled
       THEN \E failed \in BOOLEAN :
              SetScan(s, [sc[s] EXCEPT
                  !.pc = IF failed THEN "crawlwait" ELSE "crawl",
                  !.crawlerFailed = failed,
                  !.seedURLs = SeedURLs(sc[s].scanType, sc[s].targetHost,
                                        sc[s].activeSubdomains),
                  !.chanClosed = failed,
                  !.closes = IF failed THEN 1 ELSE 0,
                  !.existingSubdomains = sc[s].savedSubdomainMap,
                  !.saver = "load"])
       ELSE SetScan(s, [sc[s] EXCEPT !.pc = "tech"])
    /\ UNCHANGED <<mode, scanRows, store, faults, crashed>>

\* One call of the OnResult callback.
OnResult(s) ==
    /\ ~crashed
    /\ sc[s].pc = "crawl"
    /\ sc[s].crawlCount < (IF mode = "concurrent" THEN MaxConcurrentResults
                           ELSE MaxCrawlResults)
    /\ \E r \in (IF mode = "concurrent" THEN ConcurrentResults ELSE RawResults) :
         IF PassesBasicFilter(r) /\ InScope(r, sc[s].targetHost)
         THEN /\ Len(sc[s].resultsChan) < ChanCap
              /\ (mode = "repeat" /\ s = 2) =>
                     /\ Len(sc[s].sent) < Len(sc[1].sent)
                     /\ r = sc[1].sent[Len(sc[s].sent) + 1]
              /\ SetScan(s, [sc[s] EXCEPT !.crawlCount = @ + 1,
                                          !.sent = Append(@, r),
                                          !.resultsChan = Append(@, r)])
         ELSE SetScan(s, [sc[s] EXCEPT
                  !.crawlCount = @ + 1,
                  !.rejected = IF PassesBasicFilter(r) THEN @ \cup {r.host} ELSE @])
    /\ UNCHANGED <<mode, scanRows, store, faults, crashed>>

\* crawler.Crawl(seed) returns an error: it is logged and kept in crawlErr,
\* and the loop goes on with the next seed.
SeedFails(s) ==
    /\ ~crashed
    /\ sc[s].pc = "crawl"
    /\ ~sc[s].crawlErr
    /\ SetScan(s, [sc[s] EXCEPT !.crawlErr = TRUE])
    /\ UNCHANGED <<mode, scanRows, store, faults, crashed>>

\* A faulty variant: the last error of Crawl is returned to the caller.
CrawlReturnCollected(crawlErr) == IF crawlErr THEN <<"URL Scan">> ELSE <<>>

\* What ExecuteURLScan returns after the loop over the seeds: nil, whatever
\* crawlErr holds.
CrawlReturn(crawlErr) == <<>>

\* The capacity of resultsChan, scaled down where the sends are followed
\* one by one.
HandoffCap == 1

Capacity(m) == IF m = "handoff" THEN HandoffCap ELSE ChanCap

\* The callbacks that may be at their send at once.
MaxSenders == 2

\* What the crawl engine reports where the sends are followed one by one.
HandoffResults ==
    { RawResult(Apex, "/a", 200, {"q"}),
      RawResult(Api, "/a", 301, {"q"}),
      RawResult(Evil, "/a", 200, {"q"}) }

\* processKatanaOutput up to its last line: a callback of one of the
\* crawler's goroutines filters its result and arrives at the send.
CallbackBegins(s) ==
    /\ ~crashed
    /\ mode = "handoff"
    /\ sc[s].pc = "crawl"
    /\ sc[s].crawlCount < MaxCrawlResults
    /\ Len(sc[s].senders) < MaxSenders
    /\ \E r \in HandoffResults :
         IF PassesBasicFilter(r) /\ InScope(r, sc[s].targetHost)
         THEN SetScan(s, [sc[s] EXCEPT !.crawlCount = @ + 1,
                                      !.senders = Append(@, r)])
         ELSE SetScan(s, [sc[s] EXCEPT !.crawlCount = @ + 1,
                                      !.rejected = @ \cup {r.host}])
    /\ UNCHANGED <<mode, scanRows, store, faults, crashed>>

\* The sequence q without its i-th element.
Without(q, i) == SubSeq(q, 1, i - 1) \o SubSeq(q, i + 1, Len(q))

\* "resultsChan <- res" of one of the callbacks: it goes through when the
\* buffer has room, and panics when the channel has been closed.
Send(s) ==
    /\ ~crashed
    /\ sc[s].pc \in {"crawl", "crawlwait"}
    /\ \E i \in DOMAIN sc[s].senders :
         IF sc[s].chanClosed
         THEN /\ crashed' = TRUE
              /\ SetScan(s, [sc[s] EXCEPT !.pc = "panicked"])
         ELSE /\ Len(sc[s].resultsChan) < Capacity(mode)
              /\ crashed' = crashed
              /\ SetScan(s, [sc[s] EXCEPT
                     !.senders = Without(@, i),
                     !.sent = Append(@, sc[s].senders[i]),
                     !.resultsChan = Append(@, sc[s].senders[i])])
    /\ UNCHANGED <<mode, scanRows, store, faults>>

\* A faulty variant: Crawl returns while callbacks are still at their send.
CrawlReturnedEarly(rec) == TRUE

\* crawler.Crawl has returned for the last seed: every callback has returned.
CrawlReturned(rec) == rec.senders = <<>>

\* The seeds have been crawled (errors of Crawl are only logged):
\* close(resultsChan).
CloseResults(s) ==
    /\ ~crashed
    /\ sc[s].pc = "crawl"
    /\ CrawlReturned(sc[s])
    /\ Replayed(s, "sent", sc[s].sent)
    /\ SetScan(s, [sc[s] EXCEPT !.pc = "crawlwait", !.chanClosed = TRUE,
                                !.closes = @ + 1])
    /\ UNCHANGED <<mode, scanRows, store, faults, crashed>>

\* A faulty variant: the function returns once the channel is closed.
SaverJoinedAtClose(rec) == rec.chanClosed

\* saveWg.Wait() returns: the consumer has called wg.Done().
SaverJoined(rec) == rec.saver = "done"

\* saveWg.Wait() has returned; back in ExecuteSubdomainScan (lines 818-825).
URLScanEnd(s) ==
    /\ ~crashed
    /\ sc[s].pc = "crawlwait"
    /\ SaverJoined(sc[s])
    /\ SetScan(s, [sc[s] EXCEPT
           !.pc = "tech", !.saver = "none",
           !.crawlCount = 0, !.rejected = {}, !.chanClosed = FALSE,
           !.crawlerFailed = FALSE, !.existingSubdomains = EmptyMap,
           !.subdomainMap = EmptyMap, !.newSubdomainsToCreate = {},
           !.endpointsToCreate = <<>>, !.dropped = 0,
           !.scanErrors = IF sc[s].crawlerFailed THEN Append(@, "URL Scan")
                          ELSE @ \o CrawlReturn(sc[s].crawlErr)])
    /\ UNCHANGED <<mode, scanRows, store, faults, crashed>>

(***************************************************************************)
(* saveURLScanResults.                                                     *)
(***************************************************************************)
\* hostname -> ID of all rows (a SELECT by root domain).
AllIDs(rows) == IDsOf(rows, {r.hostname : r \in rows})

\* Lines 121-127: an error of the SELECT is not looked at.
SaverLoad(s) ==
    /\ ~crashed
    /\ sc[s].saver = "load"
    /\ \E ok \in BOOLEAN :
         /\ MayFail(ok)
         /\ Charge(<<ok>>)
         /\ LET ids == IF ok THEN AllIDs(subdomains) ELSE EmptyMap
            IN  SetScan(s, [sc[s] EXCEPT
                    !.saver = "collect",
                    !.subdomainMap = ids,
                    !.existingSubdomains = MapMerge(@, ids)])
    /\ UNCHANGED <<mode, scanRows, store, crashed>>

\* One iteration of "for res := range resultsChan".
SaverRecv(s) ==
    /\ ~crashed
    /\ sc[s].saver = "collect"
    /\ sc[s].resultsChan # <<>>
    /\ LET res == Head(sc[s].resultsChan)
           loaded == res.host \in DOMAIN sc[s].existingSubdomains
       IN  SetScan(s, [sc[s] EXCEPT
               !.resultsChan = Tail(@),
               !.existingSubdomains = IF loaded THEN @ ELSE MapPut(@, res.host, 0),
               !.newSubdomainsToCreate =
                   IF ~loaded /\ res.host # sc[s].targetHost THEN @ \cup {res.host} ELSE @,
               !.endpointsToCreate = Append(@, res)])
    /\ UNCHANGED <<mode, scanRows, store, faults, crashed>>

\* A faulty variant: the identifier of some hostname of the map, whatever the
\* hostname asked for.
ResolvedToAny(m, cache, host) ==
    IF DOMAIN m # {} THEN m[CHOOSE h \in DOMAIN m : \A g \in DOMAIN m : m[h] <= m[g]]
    ELSE 0

\* Lines 234-275: the results whose hostname resolves to a non-zero ID, in
\* the refreshed map or else in the sync.Map, with that ID.
Resolved(m, cache, host) ==
    IF host \in DOMAIN m /\ m[host] # 0 THEN m[host]
    ELSE IF host \in DOMAIN cache THEN cache[host]
    ELSE 0

\* A faulty variant: an endpoint is kept whatever its identifier.
UnresolvableNever(id) == FALSE

\* !found || resolvedSubID == 0: the endpoint is skipped.
Unresolvable(id) == id = 0

RECURSIVE ResolveEndpoints(_, _, _)
ResolveEndpoints(eps, m, cache) ==
    IF eps = <<>> THEN <<>>
    ELSE LET ep == Head(eps)
             id == Resolved(m, cache, ep.host)
             rest == ResolveEndpoints(Tail(eps), m, cache)
         IN  IF Unresolvable(id) THEN rest
             ELSE <<[subdomainID |-> id, res |-> ep]>> \o rest

\* The range loop ends: the channel is closed and drained.  With nothing to
\* create the function goes straight to resolving the identifiers.
SaverCollected(s) ==
    /\ ~crashed
    /\ sc[s].saver = "collect"
    /\ sc[s].resultsChan = <<>>
    /\ sc[s].chanClosed
    /\ IF sc[s].newSubdomainsToCreate # {}
       THEN SetScan(s, [sc[s] EXCEPT !.saver = "create"])
       ELSE LET final == ResolveEndpoints(sc[s].endpointsToCreate, sc[s].subdomainMap,
                                          sc[s].existingSubdomains)
            IN  SetScan(s, [sc[s] EXCEPT
                    !.saver = "epfind",
                    !.finalEndpointsToCreate = final,
                    !.dropped = Len(sc[s].endpointsToCreate) - Len(final)])
    /\ UNCHANGED <<mode, scanRows, store, faults, crashed>>

\* A faulty variant: the batch create leaves a row that is there untouched,
\* as the reconciler's does.
UpsertKeepingRows(rows, hosts, scan) == InsertIgnore(rows, hosts, scan)

\* INSERT ... ON CONFLICT (hostname, root_domain_id) DO UPDATE SET scan_id,
\* discovered_at, is_active.
RECURSIVE Upsert(_, _, _)
Upsert(rows, hosts, scan) ==
    IF hosts = {} THEN rows
    ELSE LET h == CHOOSE x \in hosts : TRUE
             old == {r \in rows : r.hostname = h /\ r.rootDomainID = 1}
         IN  Upsert(
                 IF old # {}
                 THEN (rows \ old) \cup {[r EXCEPT !.scan = scan, !.active = TRUE] : r \in old}
                 ELSE rows \cup {SubdomainRow(NextID(rows), h, scan)},
                 hosts \ {h}, scan)

\* Lines 175-192: the batch create; the IDs set on the created models are
\* stored in both maps.
SaverCreateSubdomains(s) ==
    /\ ~crashed
    /\ sc[s].saver = "create"
    /\ \E ok \in BOOLEAN :
         /\ MayFail(ok)
         /\ Charge(<<ok>>)
         /\ IF ok
            THEN LET rows == Upsert(subdomains, sc[s].newSubdomainsToCreate, s)
                     ids == IDsOf(rows, sc[s].newSubdomainsToCreate)
                 IN  /\ subdomains' = rows
                     /\ SetScan(s, [sc[s] EXCEPT
                            !.saver = "refetch",
                            !.subdomainMap = MapMerge(@, ids),
                            !.existingSubdomains = MapMerge(@, ids)])
            ELSE /\ subdomains' = subdomains
                 /\ SetScan(s, [sc[s] EXCEPT !.saver = "refresh"])
    /\ UNCHANGED <<mode, scanRows, endpoints, parameters, technologies, subdomainTechs,
                   screenshots, crashed>>

\* Lines 193-208: the re-fetch of the created hostnames fills only the
\* entries that are missing or 0.
SaverRefetch(s) ==
    /\ ~crashed
    /\ sc[s].saver = "refetch"
    /\ \E ok \in BOOLEAN :
         /\ MayFail(ok)
         /\ Charge(<<ok>>)
         /\ LET fetched == IF ok THEN IDsOf(subdomains, sc[s].newSubdomainsToCreate)
                           ELSE EmptyMap
                m == sc[s].subdomainMap
                fill == [h \in {x \in DOMAIN fetched : x \notin DOMAIN m \/ m[x] = 0}
                            |-> fetched[h]]
            IN  SetScan(s, [sc[s] EXCEPT
                    !.saver = "refresh",
                    !.subdomainMap = MapMerge(@, fill),
                    !.existingSubdomains = MapMerge(@, fill)])
    /\ UNCHANGED <<mode, scanRows, store, crashed>>

\* Lines 210-218 and 225-275: the map is cleared and reloaded from the
\* store, then the collected endpoints get their subdomain IDs.
SaverRefresh(s) ==
    /\ ~crashed
    /\ sc[s].saver = "refresh"
    /\ \E ok \in BOOLEAN :
         /\ MayFail(ok)
         /\ Charge(<<ok>>)
         /\ LET m == IF ok THEN AllIDs(subdomains) ELSE EmptyMap
                cache == MapMerge(sc[s].existingSubdomains, m)
                final == ResolveEndpoints(sc[s].endpointsToCreate, m, cache)
            IN  SetScan(s, [sc[s] EXCEPT
                    !.saver = "epfind",
                    !.subdomainMap = m,
                    !.existingSubdomains = cache,
                    !.finalEndpointsToCreate = final,
                    !.dropped = Len(sc[s].endpointsToCreate) - Len(final)])
    /\ UNCHANGED <<mode, scanRows, store, crashed>>

\* A faulty variant: the SELECT of FirstOrCreate never finds a row.
EndpointMatchesNone(rows, subID, path, method) == {}

\* db.Where(models.Endpoint{SubdomainID, Path, Method}): a struct condition
\* leaves out the fields that hold their zero value.
EndpointMatches(rows, subID, path, method) ==
    {r \in rows : /\ subID # 0 => r.subdomainID = subID
                  /\ path # "" => r.path = path
                  /\ method # "" => r.method = method}

\* First: the match with the lowest primary key, 0 when there is none.
FirstID(rows) == IF rows = {} THEN 0 ELSE (CHOOSE r \in rows : \A q \in rows : r.id <= q.id).id

\* One endpoint is done: on to the next of finalEndpointsToCreate.
NextEndpoint(rec) ==
    [rec EXCEPT !.saver = "epfind", !.finalEndpointsToCreate = Tail(@),
                !.found = 0, !.epID = 0, !.params = {}]

\* FirstOrCreate, its SELECT (line 294).
EndpointFind(s) ==
    /\ ~crashed
    /\ sc[s].saver = "epfind"
    /\ sc[s].finalEndpointsToCreate # <<>>
    /\ \E ok \in BOOLEAN :
         /\ MayFail(ok)
         /\ Charge(<<ok>>)
         /\ LET ep == Head(sc[s].finalEndpointsToCreate)
            IN  IF ok
                THEN SetScan(s, [sc[s] EXCEPT
                         !.saver = "epwrite",
                         !.found = FirstID(EndpointMatches(endpoints, ep.subdomainID,
                                                           ep.res.path, ep.res.method))])
                ELSE SetScan(s, NextEndpoint(sc[s]))
    /\ UNCHANGED <<mode, scanRows, store, crashed>>

\* FirstOrCreate, its INSERT (nothing found) or its UPDATE of the assigned
\* attributes (found); then lines 300-333.
EndpointWrite(s) ==
    /\ ~crashed
    /\ sc[s].saver = "epwrite"
    /\ \E ok \in BOOLEAN :
         /\ MayFail(ok)
         /\ Charge(<<ok>>)
         /\ LET ep == Head(sc[s].finalEndpointsToCreate)
                id == IF sc[s].found = 0 THEN NextID(endpoints) ELSE sc[s].found
                shot == sc[s].tmpl.ScreenshotEnabled
                        /\ ShouldScreenshot(URL(ep.res.scheme, ep.res.host, ep.res.path))
            IN  IF ok
                THEN /\ endpoints' =
                          IF sc[s].found = 0
                          THEN endpoints \cup
                                 {[id |-> id, subdomainID |-> ep.subdomainID,
                                   path |-> ep.res.path, method |-> ep.res.method,
                                   status |-> ep.res.status, scan |-> s]}
                          ELSE {IF r.id = id
                                THEN [r EXCEPT !.status = ep.res.status, !.scan = s]
                                ELSE r : r \in endpoints}
                     /\ IF id = 0
                        THEN SetScan(s, NextEndpoint(sc[s]))
                        ELSE LET rec == [sc[s] EXCEPT
                                            !.epID = id,
                                            !.params = ep.res.params,
                                            !.shotTasks =
                                                IF shot
                                                THEN @ \cup {ShotTask(URL(ep.res.scheme,
                                                         ep.res.host, ep.res.path), 0, id)}
                                                ELSE @]
                             IN  IF ep.res.params = {}
                                 THEN SetScan(s, NextEndpoint(rec))
                                 ELSE SetScan(s, [rec EXCEPT !.saver = "pfind"])
                ELSE /\ endpoints' = endpoints
                     /\ SetScan(s, NextEndpoint(sc[s]))
    /\ UNCHANGED <<mode, scanRows, subdomains, parameters, technologies, subdomainTechs,
                   screenshots, crashed>>

\* db.Where(models.Parameter{EndpointID, Name, ParamType})
ParameterMatches(rows, epID, name, kind) ==
    {r \in rows : /\ epID # 0 => r.endpointID = epID
                  /\ name # "" => r.name = name
                  /\ kind # "" => r.kind = kind}

\* A parameter is done (saved or failed): the next one, or the next endpoint.
NextParameter(rec, name) ==
    IF rec.params \ {name} = {}
    THEN NextEndpoint(rec)
    ELSE [rec EXCEPT !.saver = "pfind", !.params = @ \ {name}, !.found = 0]

\* FirstOrCreate of a parameter, its SELECT (line 342).
ParameterFind(s) ==
    /\ ~crashed
    /\ sc[s].saver = "pfind"
    /\ \E ok \in BOOLEAN :
         /\ MayFail(ok)
         /\ Charge(<<ok>>)
         /\ LET name == CHOOSE n \in sc[s].params : TRUE
            IN  IF ok
                THEN SetScan(s, [sc[s] EXCEPT
                         !.saver = "pwrite",
                         !.found = FirstID(ParameterMatches(parameters, sc[s].epID,
                                                            name, "query"))])
                ELSE SetScan(s, NextParameter(sc[s], name))
    /\ UNCHANGED <<mode, scanRows, store, crashed>>

\* FirstOrCreate of a parameter, its INSERT or UPDATE; an error is logged.
ParameterWrite(s) ==
    /\ ~crashed
    /\ sc[s].saver = "pwrite"
    /\ \E ok \in BOOLEAN :
         /\ MayFail(ok)
         /\ Charge(<<ok>>)
         /\ LET name == CHOOSE n \in sc[s].params : TRUE
            IN  /\ parameters' =
                     IF ok /\ sc[s].found = 0
                     THEN parameters \cup
                            {[id |-> NextID(parameters), endpointID |-> sc[s].epID,
                              name |-> name, kind |-> "query", scan |-> s]}
                     ELSE IF ok
                     THEN {IF r.id = sc[s].found THEN [r EXCEPT !.scan = s] ELSE r
                           : r \in parameters}
                     ELSE parameters
                /\ SetScan(s, NextParameter(sc[s], name))
    /\ UNCHANGED <<mode, scanRows, subdomains, endpoints, technologies, subdomainTechs,
                   screenshots, crashed>>

\* All endpoints processed: screenshotWG.Wait() and wg.Done().
SaverDone(s) ==
    /\ ~crashed
    /\ sc[s].saver = "epfind"
    /\ sc[s].finalEndpointsToCreate = <<>>
    /\ \E done \in SUBSET sc[s].shotTasks :
         /\ ScreenshotsTaken(sc[s].shotTasks, s, done)
         /\ SetScan(s, [Captured(sc[s], sc[s].shotTasks, done) EXCEPT
                            !.saver = "done", !.shotTasks = {}])
    /\ UNCHANGED <<mode, scanRows, subdomains, endpoints, parameters, technologies,
                   subdomainTechs, faults, crashed>>

(***************************************************************************)
(* The fingerprint phase: lines 830-943 of ExecuteSubdomainScan,           *)
(* ExecuteTechScan and saveTechnologies.                                   *)
(***************************************************************************)
\* The non-empty sets of names one fingerprint call may return.
Fingerprints == {{"Nginx"}, {"Nginx", "PHP"}}

\* The sets of names of two scans that fingerprint at the same time: names
\* that differ only in letter case, on one page and on two.
CaseVariants == {{"Nginx", "nginx"}, {"nginx"}}

FingerprintsOf(m) == IF m = "fingerprint" THEN CaseVariants ELSE Fingerprints

\* A faulty variant: the name is kept as detected.
ToLowerKeepingCase(name) == name

\* strings.ToLower
ToLower(name) ==
    CASE name = "Nginx" -> "nginx"
      [] name = "PHP" -> "php"
      [] OTHER -> name

\* The URLs of the subdomain rows and of their endpoints with a path.
SubdomainURLs(rows) == UNION {BothSchemes(r.hostname, "") : r \in rows}

EndpointURLs(eps) ==
    UNION {BothSchemes(SubdomainOf(e).hostname, e.path) : e \in {x \in eps : x.path # ""}}

\* Lines 831-926: the target URLs are gathered from the store.
TechGather(s) ==
    /\ ~crashed
    /\ sc[s].pc = "tech"
    /\ IF ~sc[s].tmpl.TechDetectEnabled
       THEN /\ SetScan(s, [sc[s] EXCEPT !.pc = "final"])
            /\ UNCHANGED faults
       ELSE \E okSubs, okEps \in BOOLEAN :
              /\ MayFailAll(<<okSubs, okEps>>)
              /\ IF sc[s].scanType = "root_domain"
                 THEN LET subs == IF okSubs THEN subdomains ELSE {}
                          fetchEps == subs # {}
                          eps == IF fetchEps /\ okEps
                                 THEN {e \in endpoints :
                                          e.subdomainID \in {r.id : r \in subs}}
                                 ELSE {}
                          urls == SubdomainURLs(subs) \cup EndpointURLs(eps)
                          errs1 == IF okSubs THEN sc[s].scanErrors
                                   ELSE Append(sc[s].scanErrors,
                                               "Tech Detect Target Fetch (Subdomains)")
                          errs2 == IF fetchEps /\ ~okEps
                                   THEN Append(errs1, "Tech Detect Target Fetch (Endpoints)")
                                   ELSE errs1
                      IN  /\ ~fetchEps => okEps
                          /\ Charge(<<okSubs, okEps>>)
                          /\ SetScan(s, [sc[s] EXCEPT
                                 !.pc = IF urls = {} THEN "final" ELSE "techscan",
                                 !.scanErrors = errs2,
                                 !.urlsToScan = urls])
                 ELSE LET target == sc[s].targetHost
                          saved == target \in DOMAIN sc[s].savedSubdomainMap
                          rows == {r \in subdomains : r.hostname = target}
                          \* okSubs: the re-fetch of the target's ID, when needed
                          idOK == saved \/ (okSubs /\ rows # {})
                          id == IF saved THEN sc[s].savedSubdomainMap[target]
                                ELSE FirstID(rows)
                          eps == IF idOK /\ okEps
                                 THEN {e \in endpoints : e.subdomainID = id /\ e.path # ""}
                                 ELSE {}
                          urls == BothSchemes(target, "") \cup
                                  UNION {BothSchemes(target, e.path) : e \in eps}
                      IN  /\ saved => okSubs
                          /\ ~idOK => okEps
                          /\ Charge(<<okSubs, okEps>>)
                          /\ SetScan(s, [sc[s] EXCEPT
                                 !.pc = "techscan",
                                 !.scanErrors =
                                     IF idOK /\ ~okEps
                                     THEN Append(@, "Tech Detect Target Fetch (Endpoints)")
                                     ELSE @,
                                 !.urlsToScan = urls])
    /\ UNCHANGED <<mode, scanRows, store, crashed>>

\* URLs with a detection in each of two scans that fingerprint at the same
\* time.
MaxConcurrentDetections == 1

\* URLs whose fetch fails in one run of ExecuteTechScan.
MaxFetchFailures == 1

\* ExecuteTechScan, lines 24-117: each URL is fetched and fingerprinted in
\* turn; a URL is kept only with a non-empty set of names; a fetch error is
\* collected and the loop goes on with the next URL.
TechDetect(s) ==
    /\ ~crashed
    /\ sc[s].pc = "techscan"
    /\ \E clientFails \in BOOLEAN, failed \in SUBSET sc[s].urlsToScan :
       \E detected \in SUBSET (sc[s].urlsToScan \ failed) :
         /\ Cardinality(failed) <= MaxFetchFailures
         /\ Cardinality(detected) <= MaxDetections
         /\ clientFails => detected = {} /\ failed = {}
         /\ mode = "fingerprint" =>
               /\ ~clientFails /\ failed = {}
               /\ Cardinality(detected) <= MaxConcurrentDetections
         /\ \E results \in [detected -> FingerprintsOf(mode)] :
              IF clientFails
              THEN SetScan(s, [sc[s] EXCEPT !.pc = "final", !.urlsToScan = {},
                                            !.scanErrors = Append(@, "Tech Detect")])
              ELSE SetScan(s, [sc[s] EXCEPT !.pc = "techsave", !.urlsToScan = {},
                                            !.resultsByURL = results,
                                            !.techErrors = failed # {},
                                            !.techURLs = sc[s].urlsToScan,
                                            !.techFailedURLs = failed,
                                            !.techDetected = results])
    /\ UNCHANGED <<mode, scanRows, store, faults, crashed>>

\* The return of ExecuteTechScan (lines 119-135) and lines 932-939.
TechReturn(rec, saveErr) ==
    [rec EXCEPT !.pc = "final", !.resultsByURL = EmptyMap, !.techErrors = FALSE,
                !.subdomainIDMap = EmptyMap, !.techItems = {},
                !.processedTechs = EmptyMap, !.joinEntriesToCreate = <<>>,
                !.scanErrors = IF saveErr \/ rec.techErrors
                               THEN Append(@, "Tech Detect") ELSE @]

\* The rows a statement inside the transaction sees: the committed rows and
\* the transaction's own writes.
TxTechnologies(s) == technologies \cup sc[s].tx.technologies

\* The store is one SQLite file opened with the defaults (part_000, line 34):
\* a transaction keeps its read lock from its first query to its end, a
\* write inside a transaction takes the file's one write lock and keeps it
\* to the end, and a commit of writes waits for every other reader.  A
\* statement that cannot have its lock returns an error (database is locked).
Wrote(tx) == tx.subdomains # {} \/ tx.technologies # {}

\* Another transaction holds the write lock.
WriteLocked(s) == \E u \in Scans \ {s} : sc[u].tx.state = "open" /\ Wrote(sc[u].tx)

\* Another transaction holds a read lock.
ReadLocked(s) == \E u \in Scans \ {s} : sc[u].tx.state = "open"

\* The rows of the table and of every transaction: an insert takes the next
\* row ID of the file.
AllTechnologies == technologies \cup UNION {sc[u].tx.technologies : u \in Scans}

\* The (URL, name) pairs of resultsByURL whose host has an ID in the map.
TechItems(results, ids) ==
    UNION { {<<u, t>> : t \in results[u]} : u \in {x \in DOMAIN results : x.host \in DOMAIN ids} }

\* A faulty variant: the row of the apex hostname is created whatever the
\* query found.
RecordNotFoundAlways(rows) == TRUE

\* Line 180: errors.Is(err, gorm.ErrRecordNotFound)
RecordNotFound(rows) == rows = {}

\* The store calls of lines 146-198, in order.
BeginCall == "tx.Begin"
RootDomainFetch == "tx.First(&rootDomain)"
SubdomainsFetch == "tx.Find(&existingSubdomains)"
ApexQuery == "tx.First(&rootSubdomain)"
ApexCreate == "tx.Create(&rootSubdomain)"

\* saveTechnologies, lines 139-198.  failed is the set of calls that return
\* an error.  The deferred function rolls back only on a panic or when the
\* Error field of the handle returned by Begin is set, which the statements
\* run through the handle never do: an error return leaves the transaction
\* open.
TechBegin(s) ==
    /\ ~crashed
    /\ sc[s].pc = "techsave"
    /\ IF DOMAIN sc[s].resultsByURL = {}
       THEN /\ SetScan(s, TechReturn(sc[s], FALSE))
            /\ UNCHANGED faults
       ELSE \E failed \in SUBSET {BeginCall, RootDomainFetch, SubdomainsFetch,
                                  ApexQuery, ApexCreate} :
              LET apexRows == {r \in subdomains : r.hostname = RootDomainName}
                  reached == {BeginCall}
                      \cup (IF BeginCall \notin failed THEN {RootDomainFetch} ELSE {})
                      \cup (IF failed \cap {BeginCall, RootDomainFetch} = {}
                            THEN {SubdomainsFetch, ApexQuery} ELSE {})
                      \cup (IF failed \cap {BeginCall, RootDomainFetch, ApexQuery} = {}
                               /\ RecordNotFound(apexRows)
                            THEN {ApexCreate} ELSE {})
                  fatal == failed \cap {BeginCall, RootDomainFetch, ApexQuery, ApexCreate}
                  apexRow == SubdomainRow(NextID(subdomains), RootDomainName, s)
                  created == IF ApexCreate \in reached \ failed THEN {apexRow} ELSE {}
                  fetched == IF SubdomainsFetch \in failed THEN EmptyMap
                             ELSE AllIDs(subdomains)
                  ids == MapMerge(fetched, AllIDs(apexRows \cup created))
                  tx == [state |-> IF BeginCall \in failed THEN "none" ELSE "open",
                         subdomains |-> created, technologies |-> {},
                         subdomainTechs |-> {},
                         writeFailed |-> ApexCreate \in failed]
                  locked == IF WriteLocked(s) THEN reached \cap {ApexCreate} ELSE {}
              IN  /\ failed \subseteq reached
                  /\ locked \subseteq failed
                  /\ faults + Cardinality(failed \ locked) <= MaxFaults
                  /\ faults' = faults + Cardinality(failed \ locked)
                  /\ IF fatal # {}
                     THEN SetScan(s, TechReturn([sc[s] EXCEPT !.tx = tx], TRUE))
                     ELSE SetScan(s, [sc[s] EXCEPT
                              !.pc = "techprocess", !.tx = tx, !.subdomainIDMap = ids,
                              !.techItems = TechItems(sc[s].resultsByURL, ids)])
    /\ UNCHANGED <<mode, scanRows, store, crashed>>

\* Lines 229-267 for one (URL, name) pair: the technology is taken from
\* processedTechs, or found, or created; a query or a create that fails
\* skips the pair and the loop goes on.
TechItem(s) ==
    /\ ~crashed
    /\ sc[s].pc = "techprocess"
    /\ sc[s].techItems # {}
    /\ LET it == CHOOSE x \in sc[s].techItems : TRUE
           name == ToLower(it[2])
           cached == name \in DOMAIN sc[s].processedTechs
           rows == {r \in TxTechnologies(s) : r.name = name}
           subID == sc[s].subdomainIDMap[it[1].host]
           Linked(rec, techID) ==
               [rec EXCEPT !.techItems = @ \ {it},
                           !.processedTechs = MapPut(@, name, techID),
                           !.joinEntriesToCreate =
                               Append(@, [subdomainID |-> subID, technologyID |-> techID])]
           Skipped(rec) == [rec EXCEPT !.techItems = @ \ {it}]
       IN  IF cached
           THEN /\ SetScan(s, Linked(sc[s], sc[s].processedTechs[name]))
                /\ UNCHANGED faults
           ELSE \E failure \in {"none", "query", "create"} :
                  /\ LET locked == WriteLocked(s) /\ rows = {} /\ failure # "query"
                     IN  /\ locked => failure = "create"
                         /\ IF locked THEN UNCHANGED faults
                            ELSE /\ MayFail(failure = "none")
                                 /\ Charge(<<failure = "none">>)
                  /\ failure = "create" => rows = {}
                  /\ LET row == [id |-> NextID(AllTechnologies), name |-> name]
                     IN  SetScan(s,
                           CASE failure = "query" -> Skipped(sc[s])
                             [] failure = "create" ->
                                  Skipped([sc[s] EXCEPT !.tx.writeFailed = TRUE])
                             [] OTHER ->
                                  IF rows # {}
                                  THEN Linked(sc[s], FirstID(rows))
                                  ELSE Linked([sc[s] EXCEPT
                                                  !.tx.technologies = @ \cup {row}],
                                              row.id))
    /\ UNCHANGED <<mode, scanRows, store, crashed>>

\* The join rows of a batch insert; the table has no key, so each entry is a
\* row of its own.
RECURSIVE InsertJoins(_, _, _)
InsertJoins(rows, joins, scan) ==
    IF joins = <<>> THEN rows
    ELSE InsertJoins(rows \cup {[id |-> NextID(rows),
                                 subdomainID |-> Head(joins).subdomainID,
                                 technologyID |-> Head(joins).technologyID,
                                 scan |-> scan]},
                     Tail(joins), scan)

\* The batch holds a (subdomain, technology) pair twice, or one the table
\* already has.
JoinConflict(rows, joins) ==
    \/ \E i, j \in DOMAIN joins : i # j /\ joins[i] = joins[j]
    \/ \E i \in DOMAIN joins : \E r \in rows :
          r.subdomainID = joins[i].subdomainID /\ r.technologyID = joins[i].technologyID

\* saveTechnologies, lines 270-304: the batch insert of the join entries
\* (when there are any) and the commit.  The insert names no conflict
\* clause: on a repeated pair it adds a second row, or fails when the table
\* that the migration built has the pair as its key (rejected).
\* Lines 150-157 and 299-303.  Commit runs on the handle itself, so its error
\* is in tx.Error and the deferred function rolls back; a return before the
\* commit (lines 289-296) sets no Error on the handle and no rollback runs.
AfterCommit(commit, committed) ==
    CASE committed -> "committed"
      [] commit -> "rolledback"
      [] OTHER -> "open"

TechCommit(s) ==
    /\ ~crashed
    /\ sc[s].pc = "techprocess"
    /\ sc[s].techItems = {}
    /\ \E okInsert, okCommit, rejected \in BOOLEAN :
         LET insert == sc[s].joinEntriesToCreate # <<>>
             inserted == insert /\ okInsert /\ ~rejected
             commit == ~insert \/ inserted
             newJoins == IF inserted
                         THEN InsertJoins(subdomainTechs, sc[s].joinEntriesToCreate, s)
                                  \ subdomainTechs
                         ELSE {}
             committed == commit /\ okCommit
             tx == [sc[s].tx EXCEPT
                       !.state = AfterCommit(commit, committed),
                       !.subdomainTechs = newJoins,
                       !.writeFailed = @ \/ (insert /\ ~inserted) \/ (commit /\ ~okCommit)]
             insertLocked == insert /\ WriteLocked(s)
             commitLocked == commit /\ (Wrote(sc[s].tx) \/ insert) /\ ReadLocked(s)
             charged == <<okInsert \/ insertLocked, okCommit \/ commitLocked>>
         IN  /\ ~insert => okInsert
             /\ ~commit => okCommit
             /\ insertLocked => ~okInsert
             /\ commitLocked => ~okCommit
             /\ rejected => (insert /\ okInsert
                             /\ JoinConflict(subdomainTechs, sc[s].joinEntriesToCreate))
             /\ MayFailAll(charged)
             /\ Charge(charged)
             /\ IF committed
                THEN /\ subdomains' = subdomains \cup tx.subdomains
                     /\ technologies' = technologies \cup tx.technologies
                     /\ subdomainTechs' = subdomainTechs \cup tx.subdomainTechs
                ELSE UNCHANGED <<subdomains, technologies, subdomainTechs>>
             /\ SetScan(s, TechReturn([sc[s] EXCEPT !.tx = tx], ~committed))
    /\ UNCHANGED <<mode, scanRows, endpoints, parameters, screenshots, crashed>>

(***************************************************************************)
(* ExecuteSubdomainScan, lines 945-959: the final status.                  *)
(***************************************************************************)
\* A faulty variant: the error list is not looked at.
FinalStatusIgnoringErrors(scanErrors) == "completed"

\* Lines 947-953: failed when an error was collected.
FinalStatus(scanErrors) == IF Len(scanErrors) > 0 THEN "failed" ELSE "completed"

\* strings.Join(scanErrors, "; ") keeps every collected message.
FinalMessage(scanErrors) ==
    IF Len(scanErrors) > 0 THEN scanErrors ELSE <<"Scan completed successfully">>

\* The numbers of rows in the store, noted when a scan ends.
RowCounts ==
    [subdomains |-> Cardinality(subdomains), endpoints |-> Cardinality(endpoints),
     parameters |-> Cardinality(parameters)]

\* A faulty variant: the fingerprint phase runs after the status is written.
AfterFinalStatusGoesBack == "tech"

\* Line 959 is the last statement of ExecuteSubdomainScan.
AfterFinalStatus == "returned"

Final(s) ==
    /\ ~crashed
    /\ sc[s].pc = "final"
    /\ \E ok \in BOOLEAN :
         /\ MayFail(ok)
         /\ Charge(<<ok>>)
         /\ UpdateScanStatus(s, FinalStatus(sc[s].scanErrors),
                             FinalMessage(sc[s].scanErrors), ok)
         /\ SetScan(s, [sc[s] EXCEPT !.pc = AfterFinalStatus, !.rowCounts = RowCounts])
    /\ UNCHANGED <<mode, store, crashed>>

(***************************************************************************)
(* The specification: one scan started by a handler.                       *)
(***************************************************************************)
\* The steps of a scan outside the persistence of the fingerprint phase.
Pipeline(s) ==
    \/ StartScan(s)
    \/ Expire(s)
    \/ ExecBegin(s)
    \/ InitialScreenshots(s)
    \/ Enumerate(s)
    \/ Discover(s)
    \/ Verify(s)
    \/ TargetSubdomain(s)
    \/ SaveSubdomains(s)
    \/ FetchSubdomainIDs(s)
    \/ PostScreenshots(s)
    \/ URLScanBegin(s)
    \/ OnResult(s)
    \/ CloseResults(s)
    \/ URLScanEnd(s)
    \/ SaverLoad(s)
    \/ SaverRecv(s)
    \/ SaverCollected(s)
    \/ SaverCreateSubdomains(s)
    \/ SaverRefetch(s)
    \/ SaverRefresh(s)
    \/ EndpointFind(s)
    \/ EndpointWrite(s)
    \/ ParameterFind(s)
    \/ ParameterWrite(s)
    \/ SaverDone(s)
    \/ TechGather(s)
    \/ Final(s)

\* ExecuteTechScan and saveTechnologies.
Fingerprint(s) ==
    \/ TechDetect(s)
    \/ TechBegin(s)
    \/ TechItem(s)
    \/ TechCommit(s)

Next == \E s \in Scans : Pipeline(s) \/ Fingerprint(s)

\* Scans under a template that has fingerprinting disabled.
NextPipeline == \E s \in Scans : Pipeline(s)

Spec == Init /\ [][Next]_vars

(***************************************************************************)
(* Two scans of the root domain one after the other, the second with the   *)
(* candidate set, the active set and the crawl results of the first; no    *)
(* store call fails.                                                       *)
(***************************************************************************)
InitRepeat == mode = "repeat" /\ InitCommon

SpecRepeat == InitRepeat /\ [][NextPipeline]_vars

(***************************************************************************)
(* Two scans of the root domain started by two requests, their goroutines  *)
(* interleaved; no store call fails.                                       *)
(***************************************************************************)
InitConcurrent == mode = "concurrent" /\ InitCommon

SpecConcurrent == InitConcurrent /\ [][NextPipeline]_vars

(***************************************************************************)
(* Two scans of the fingerprinting template started by two requests, their *)
(* goroutines interleaved; the only errors of the store are those of its   *)
(* locks.                                                                  *)
(***************************************************************************)
InitFingerprint == mode = "fingerprint" /\ InitCommon

\* The steps of ExecuteSubdomainScan under a template that has the crawl and
\* the screenshots disabled.
DiscoveryOnly(s) ==
    \/ StartScan(s)
    \/ ExecBegin(s)
    \/ InitialScreenshots(s)
    \/ Enumerate(s)
    \/ Discover(s)
    \/ Verify(s)
    \/ TargetSubdomain(s)
    \/ SaveSubdomains(s)
    \/ FetchSubdomainIDs(s)
    \/ PostScreenshots(s)
    \/ URLScanBegin(s)
    \/ TechGather(s)
    \/ Final(s)

NextFingerprint == \E s \in Scans : DiscoveryOnly(s) \/ Fingerprint(s)

SpecFingerprint == InitFingerprint /\ [][NextFingerprint]_vars

(***************************************************************************)
(* One root-domain scan up to the return of verifyActiveSubdomains, with   *)
(* the callbacks of the httpx runner followed one by one.                  *)
(***************************************************************************)
InitCallbacks == mode = "callbacks" /\ InitCommon

NextCallbacks ==
    \E s \in Scans :
        \/ StartScan(s)
        \/ ExecBegin(s)
        \/ InitialScreenshots(s)
        \/ Enumerate(s)
        \/ Discover(s)
        \/ RunEnumeration(s)
        \/ HttpxOnResult(s)
        \/ HttpxOnResultAssign(s)
        \/ Verify(s)

SpecCallbacks == InitCallbacks /\ [][NextCallbacks]_vars

(***************************************************************************)
(* One scan from its start to the call of ExecuteURLScan, under a template *)
(* that crawls, with the enumeration provider or without it; no store call *)
(* fails.                                                                  *)
(***************************************************************************)
InitSeeds == mode = "seeds" /\ InitCommon

NextSeeds ==
    \E s \in Scans :
        \/ StartScan(s)
        \/ ExecBegin(s)
        \/ InitialScreenshots(s)
        \/ Enumerate(s)
        \/ Discover(s)
        \/ Verify(s)
        \/ TargetSubdomain(s)
        \/ SaveSubdomains(s)
        \/ FetchSubdomainIDs(s)
        \/ PostScreenshots(s)
        \/ URLScanBegin(s)

SpecSeeds == InitSeeds /\ [][NextSeeds]_vars

(***************************************************************************)
(* ShouldScreenshot called with any URL: the function is exported and is   *)
(* given the URLs of subdomains (no path) and of endpoints, of whatever     *)
(* root domain the scan is of.                                             *)
(***************************************************************************)
\* Hostnames under the top-level domains .md and .zip.
MdHost == <<"example", "md">>
ZipHost == <<"files", "example", "zip">>

ScreenURLs ==
    UNION { BothSchemes(h, p) : h \in {Apex, Api, MdHost, ZipHost},
                                p \in {"", "/app.js", "/APP.JS?v=1", "/page?file=a.css", "/login"} }

\* URLs given to ShouldScreenshot in one run.
MaxScreened == 2

\* The subsets of S with at most k elements.
RECURSIVE SubsetsUpTo(_, _)
SubsetsUpTo(S, k) ==
    IF k = 0 THEN {{}}
    ELSE LET smaller == SubsetsUpTo(S, k - 1)
         IN  smaller \cup UNION { {T \cup {u} : u \in S} : T \in smaller }

\* One call of ShouldScreenshot, as at line 565 of subdomain_scanner.go:
\* the URL becomes a screenshot task when the function
\* returns true and is passed over otherwise.
Screen(s) ==
    /\ ~crashed
    /\ mode = "screen"
    /\ \E u \in sc[s].urlsToScan :
         SetScan(s, [sc[s] EXCEPT
                !.urlsToScan = @ \ {u},
                !.shotTasks = IF ShouldScreenshot(u) THEN @ \cup {u} ELSE @])
    /\ UNCHANGED <<mode, scanRows, store, faults, crashed>>

InitScreen ==
    /\ mode = "screen"
    /\ scanRows = [s \in Scans |-> NoScanRow]
    /\ subdomains = {} /\ endpoints = {} /\ parameters = {}
    /\ technologies = {} /\ subdomainTechs = {} /\ screenshots = {}
    /\ \E urls \in SubsetsUpTo(ScreenURLs, MaxScreened) :
         /\ sc = [s \in Scans |-> IF s = 1 THEN [IdleScan EXCEPT !.urlsToScan = urls]
                                  ELSE IdleScan]
    /\ faults = MaxFaults
    /\ crashed = FALSE

NextScreen == \E s \in Scans : Screen(s)

SpecScreen == InitScreen /\ [][NextScreen]_vars

(***************************************************************************)
(* ExecuteTechScan called with any list of URLs: the function is exported  *)
(* and takes the URLs as given, of hostnames with a Subdomain row or       *)
(* without one.  The call returns where the scan's pc is "final".          *)
(***************************************************************************)
TechCallHosts == {Apex, Api, Evil}

TechCall(s) ==
    /\ ~crashed
    /\ mode = "techcall"
    /\ s = 1
    /\ sc[s].pc = "idle"
    /\ \E hosts \in SUBSET TechCallHosts :
         /\ hosts # {}
         /\ SetScan(s, [IdleScan EXCEPT
                !.pc = "techscan", !.scanType = "root_domain",
                !.targetHost = RootDomainName, !.tmpl = TechTemplate,
                !.urlsToScan = UNION {BothSchemes(h, "") : h \in hosts}])
    /\ UNCHANGED <<mode, scanRows, store, faults, crashed>>

InitTechCall == mode = "techcall" /\ InitCommon

NextTechCall == \E s \in Scans : TechCall(s) \/ Fingerprint(s)

SpecTechCall == InitTechCall /\ [][NextTechCall]_vars

(***************************************************************************)
(* ExecuteSubdomainScan called with any scan kind: one scan, started by a  *)
(* handler or by a direct call.                                            *)
(***************************************************************************)
InitDirect == mode = "direct" /\ InitCommon

NextDirect == \E s \in Scans : Pipeline(s) \/ Fingerprint(s) \/ DirectCall(s) \/ UnknownScanType(s)

SpecDirect == InitDirect /\ [][NextDirect]_vars

(***************************************************************************)
(* One scan under a template that enables the crawl only; the crawl of a   *)
(* seed may fail.                                                          *)
(***************************************************************************)
InitCrawl == mode = "crawl" /\ InitCommon

NextCrawl == \E s \in Scans : Pipeline(s) \/ SeedFails(s)

SpecCrawl == InitCrawl /\ [][NextCrawl]_vars

(***************************************************************************)
(* One scan under a template that enables the crawl only, with the sends   *)
(* of the crawler's callbacks followed one by one; no store call fails.    *)
(* The goroutines are scheduled fairly: a send that can go through does,   *)
(* the consumer goes on when it can, the crawl of the last seed ends once  *)
(* its callbacks have returned, and the caller goes on when its wait is    *)
(* over.                                                                   *)
(***************************************************************************)
InitHandoff == mode = "handoff" /\ InitCommon

Producer(s) == CallbackBegins(s) \/ Send(s) \/ CloseResults(s)

Consumer(s) ==
    \/ SaverLoad(s)
    \/ SaverRecv(s)
    \/ SaverCollected(s)
    \/ SaverCreateSubdomains(s)
    \/ SaverRefetch(s)
    \/ SaverRefresh(s)
    \/ EndpointFind(s)
    \/ EndpointWrite(s)
    \/ ParameterFind(s)
    \/ ParameterWrite(s)
    \/ SaverDone(s)

Caller(s) ==
    \/ StartScan(s)
    \/ ExecBegin(s)
    \/ InitialScreenshots(s)
    \/ Enumerate(s)
    \/ Discover(s)
    \/ Verify(s)
    \/ TargetSubdomain(s)
    \/ SaveSubdomains(s)
    \/ FetchSubdomainIDs(s)
    \/ PostScreenshots(s)
    \/ URLScanBegin(s)
    \/ URLScanEnd(s)
    \/ TechGather(s)
    \/ Final(s)

NextHandoff == \E s \in Scans : Caller(s) \/ Producer(s) \/ Consumer(s)

SpecHandoff ==
    /\ InitHandoff
    /\ [][NextHandoff]_vars
    /\ \A s \in Scans : /\ WF_vars(Send(s))
                        /\ WF_vars(Consumer(s))
                        /\ WF_vars(CloseResults(s))
                        /\ WF_vars(URLScanEnd(s))

(***************************************************************************)
(* Properties.                                                             *)
(***************************************************************************)
Range(q) == {q[i] : i \in DOMAIN q}

\* Program points of ExecuteSubdomainScan past the discovery stage, past
\* verification, and past the persistence reconciler.
AfterDiscovery ==
    {"verify", "panicked", "save", "fetchids", "postshots", "urlscan", "crawl",
     "crawlwait", "tech", "techscan", "techsave", "techprocess", "final", "returned"}
AfterVerification == AfterDiscovery \ {"verify"}
AfterReconciler == AfterVerification \ {"panicked", "save", "fetchids"}

\* The scans of the root domain that got past the template check.
RootScans == {s \in Scans : sc[s].scanType = "root_domain" /\ ~sc[s].tmpl.isNil}

ApexRowExists == \E r \in subdomains : r.hostname = RootDomainName /\ r.rootDomainID = 1

\* C1 as stated: a scan that has ended in a terminal status is failed if and
\* only if its error list is non-empty.
C1_Original ==
    \A s \in Scans :
        (sc[s].pc = "returned" /\ scanRows[s].status \in Terminal) =>
            (scanRows[s].status = "failed" <=> sc[s].scanErrors # <<>>)

\* C1: a scan that ran through its phases and ended in a terminal status is
\* failed if and only if its error list is non-empty; a scan stopped for a
\* missing template is failed with an empty error list.
C1_StatusIffErrors ==
    \A s \in Scans :
        (sc[s].pc = "returned" /\ scanRows[s].status \in Terminal) =>
            IF sc[s].tmpl.isNil
            THEN scanRows[s].status = "failed" /\ sc[s].scanErrors = <<>>
            ELSE scanRows[s].status = "failed" <=> sc[s].scanErrors # <<>>

C1_Witness ==
    \E s \in Scans :
        /\ sc[s].pc = "returned"
        /\ ~sc[s].tmpl.isNil
        /\ scanRows[s].status = "failed"
        /\ sc[s].scanErrors # <<>>
        /\ \E r \in subdomains : r.scan = s

\* C2: a scan whose goroutine has ended, by returning or by a panic, is in a
\* terminal status.
C2_Terminates ==
    \A s \in Scans :
        sc[s].pc \in {"returned", "panicked"} => scanRows[s].status \in Terminal

C2_Witness ==
    \E s \in Scans : sc[s].pc = "panicked" /\ scanRows[s].status = "running"

\* C3: when verification has returned an error in a root-domain scan, the
\* error is in the list, the scan has not panicked and the root domain is in
\* the active set.
C3_VerificationErrorTolerated ==
    \A s \in RootScans :
        sc[s].activeIsNil =>
            /\ "Subdomain verification" \in Range(sc[s].scanErrors)
            /\ sc[s].pc # "panicked"
            /\ ~crashed
            /\ sc[s].targetHost \in sc[s].activeSubdomains

C3_Witness ==
    \E s \in RootScans :
        /\ "Subdomain verification" \in Range(sc[s].scanErrors)
        /\ sc[s].pc = "panicked"
        /\ crashed
        /\ scanRows[s].status # "failed"

\* C4: in a root-domain scan the root domain is in the candidate
\* set after discovery, in the active set after verification, and has a
\* Subdomain row after the reconciler.
C4_Original ==
    \A s \in RootScans :
        /\ sc[s].pc \in AfterDiscovery => sc[s].targetHost \in sc[s].allSubdomains
        /\ sc[s].pc \in AfterVerification => sc[s].targetHost \in sc[s].activeSubdomains
        /\ sc[s].pc \in AfterReconciler => ApexRowExists

\* What does hold of apex retention: in a root-domain scan the root domain is
\* in the candidate set after discovery; it is in the active set after a
\* verification that returned no error (an error ends the scan in a panic,
\* with a nil active set); it has a Subdomain row once the reconciler's insert
\* has succeeded, and an entry in the returned map when the reconciler
\* reported no error.
C4_ApexRetention ==
    \A s \in RootScans :
        /\ sc[s].pc \in AfterDiscovery => sc[s].targetHost \in sc[s].allSubdomains
        /\ sc[s].pc \in AfterVerification \ {"panicked"} =>
               sc[s].targetHost \in sc[s].activeSubdomains
        /\ sc[s].pc = "panicked" =>
               sc[s].activeIsNil /\ "Subdomain verification" \in Range(sc[s].scanErrors)
        /\ sc[s].pc = "fetchids" => ApexRowExists
        /\ (sc[s].pc \in AfterReconciler
              /\ "Subdomain Save/ID Fetch" \notin Range(sc[s].scanErrors)) => ApexRowExists
        /\ (sc[s].pc = "postshots"
              /\ "Subdomain Save/ID Fetch" \notin Range(sc[s].scanErrors)) =>
               sc[s].targetHost \in DOMAIN sc[s].savedSubdomainMap

C4_Witness ==
    \E s \in RootScans :
        /\ sc[s].pc = "postshots"
        /\ sc[s].subfinderEnabled
        /\ sc[s].allSubdomains = {RootDomainName}
        /\ sc[s].activeSubdomains = {RootDomainName}
        /\ sc[s].scanErrors = <<>>
        /\ \E r \in subdomains : r.hostname = RootDomainName /\ r.scan = s

\* A hostname outside the root domain: its last two labels are not the root
\* domain's (every public suffix under which the universe has hosts is one
\* label long).
Foreign(h) == Len(h) < 2 \/ Suffix(h, 2) # RootDomainName

\* The crawl results a scan holds: in the channel, collected, resolved.
InFlight(s) ==
    Range(sc[s].resultsChan) \cup Range(sc[s].endpointsToCreate)
        \cup {e.res : e \in Range(sc[s].finalEndpointsToCreate)}

\* C5: no crawl result of a hostname outside the root domain is sent to the
\* consumer, and no Subdomain row, nor any Endpoint or Parameter under one,
\* has such a hostname.
C5_ScopeEnforced ==
    /\ \A s \in Scans : \A r \in Range(sc[s].sent) \cup InFlight(s) : ~Foreign(r.host)
    /\ \A s \in Scans : \A h \in sc[s].newSubdomainsToCreate : ~Foreign(h)
    /\ \A r \in subdomains : ~Foreign(r.hostname)
    /\ \A e \in endpoints : \E r \in subdomains : r.id = e.subdomainID /\ ~Foreign(r.hostname)
    /\ \A q \in parameters : \E e \in endpoints : e.id = q.endpointID

C5_Witness ==
    \E s \in Scans :
        /\ Evil \in sc[s].rejected
        /\ sc[s].sent # <<>>
        /\ sc[s].saver = "epfind"
        /\ \E e \in endpoints : e.scan = s

\* C6: no Endpoint row has subdomain identifier 0 and no Parameter row has
\* endpoint identifier 0; the results kept for writing all carry a non-zero
\* identifier, and each collected result is either kept or dropped.
C6_IdentifierFreshness ==
    /\ \A e \in endpoints : e.subdomainID # 0 /\ e.id # 0
    /\ \A q \in parameters : q.endpointID # 0
    /\ \A s \in Scans :
         /\ \A e \in Range(sc[s].finalEndpointsToCreate) : e.subdomainID # 0
         /\ sc[s].saver \in {"pfind", "pwrite"} => sc[s].epID # 0
         /\ sc[s].dropped > 0 =>
                \E r \in Range(sc[s].endpointsToCreate) :
                    /\ Resolved(sc[s].subdomainMap, sc[s].existingSubdomains, r.host) = 0
                    /\ \A e \in Range(sc[s].finalEndpointsToCreate) : e.res.host # r.host

\* A result was dropped on a 0 placeholder and a later one was written.
C6_Witness ==
    \E s \in Scans :
        /\ sc[s].dropped > 0
        /\ \E h \in DOMAIN sc[s].existingSubdomains : sc[s].existingSubdomains[h] = 0
        /\ sc[s].saver = "done"
        /\ \E e \in endpoints : e.scan = s

SubdomainKeysUnique ==
    \A a, b \in subdomains :
        (a.hostname = b.hostname /\ a.rootDomainID = b.rootDomainID) => a = b

EndpointKeysUnique ==
    \A a, b \in endpoints :
        (a.subdomainID = b.subdomainID /\ a.path = b.path /\ a.method = b.method) => a = b

ParameterKeysUnique ==
    \A a, b \in parameters :
        (a.endpointID = b.endpointID /\ a.name = b.name /\ a.kind = b.kind) => a = b

C8_ConcurrentKeysUnique ==
    SubdomainKeysUnique /\ EndpointKeysUnique /\ ParameterKeysUnique

\* Both scans have inserted an Endpoint row for the same page.
C8_Witness ==
    \E a, b \in endpoints :
        /\ a.id # b.id
        /\ a.subdomainID = b.subdomainID /\ a.path = b.path /\ a.method = b.method
        /\ a.scan # b.scan

\* C9: no Subdomain row has a hostname that parses as an IP address, and no
\* key of the map the reconciler returns does.
C9_IPExclusion ==
    /\ \A r \in subdomains : ~ParseIP(r.hostname)
    /\ \A s \in Scans : \A h \in DOMAIN sc[s].savedSubdomainMap : ~ParseIP(h)

C9_Witness ==
    \E s \in Scans :
        /\ {IPv4Host, IPv6Host} \subseteq sc[s].activeSubdomains
        /\ sc[s].pc = "postshots"
        /\ DOMAIN sc[s].savedSubdomainMap # {}

\* The writes of a scan's saveTechnologies that the store shows.
VisibleTechWrites(s) ==
    IF sc[s].tx.state = "committed"
    THEN sc[s].tx.subdomains \cup sc[s].tx.technologies \cup sc[s].tx.subdomainTechs
    ELSE {}

\* C10: when a store write of saveTechnologies has failed, none of the writes
\* of that call is visible.
C10_AllOrNothing ==
    \A s \in Scans : sc[s].tx.writeFailed => VisibleTechWrites(s) = {}

\* The create of one Technology failed and the rest was committed.
C10_Witness ==
    \E s \in Scans :
        /\ sc[s].tx.writeFailed
        /\ sc[s].tx.state = "committed"
        /\ sc[s].tx.technologies # {}
        /\ sc[s].tx.technologies \subseteq technologies
        /\ sc[s].tx.subdomainTechs # {}

\* The fingerprint pass of a scan is over.
TechPhaseOver(s) == sc[s].pc \in {"final", "returned"} /\ sc[s].techURLs # {}

\* The store links the hostname to the technology of that name.
Persisted(host, name) ==
    \E r \in subdomains, g \in technologies, j \in subdomainTechs :
        /\ r.hostname = host
        /\ g.name = ToLower(name)
        /\ j.subdomainID = r.id
        /\ j.technologyID = g.id

C11_PassContinues ==
    \A s \in Scans :
        sc[s].techFailedURLs # {} =>
            /\ sc[s].techFailedURLs \cap DOMAIN sc[s].techDetected = {}
            /\ DOMAIN sc[s].techDetected \subseteq sc[s].techURLs
            /\ sc[s].pc = "techsave" => sc[s].resultsByURL = sc[s].techDetected
            /\ (TechPhaseOver(s) /\ faults = 0 /\ sc[s].tx.state = "committed") =>
                   \A u \in DOMAIN sc[s].techDetected :
                       \A n \in sc[s].techDetected[u] : Persisted(u.host, n)

\* C12: the store never holds two association rows for one (subdomain,
\* technology) pair.
C12_AssociationUnique ==
    \A a, b \in subdomainTechs :
        (a.subdomainID = b.subdomainID /\ a.technologyID = b.technologyID) => a = b

\* One pass has written two association rows for the same pair, from two
\* URLs of one hostname.
C12_Witness ==
    \E s \in Scans : \E a, b \in subdomainTechs :
        /\ a # b
        /\ a.subdomainID = b.subdomainID /\ a.technologyID = b.technologyID
        /\ a.scan = s /\ b.scan = s
        /\ \E u, v \in DOMAIN sc[s].techDetected :
              u # v /\ u.host = v.host
                    /\ sc[s].techDetected[u] \cap sc[s].techDetected[v] # {}

\* The scans whose reconciler has returned a map and no error.
Reconciled ==
    {s \in Scans : /\ ~sc[s].tmpl.isNil
                   /\ sc[s].pc \in AfterReconciler
                   /\ "Subdomain Save/ID Fetch" \notin Range(sc[s].scanErrors)}

\* C13 as stated: when the reconciler has just returned, its map has an entry
\* for every Subdomain row of the root domain, with a non-zero identifier.
C13_Original ==
    \A s \in Reconciled :
        sc[s].pc = "postshots" =>
            /\ DOMAIN sc[s].savedSubdomainMap = {r.hostname : r \in subdomains}
            /\ \A h \in DOMAIN sc[s].savedSubdomainMap : sc[s].savedSubdomainMap[h] # 0

\* C13: the map the reconciler returns has an entry for exactly the hostnames
\* it tried to insert (the active hostnames that are no IP address), each
\* with the non-zero identifier of the row of that hostname, whether the row
\* was inserted now or was there before.
C13_MapOfIntended ==
    \A s \in Reconciled :
        /\ DOMAIN sc[s].savedSubdomainMap = ModelsToCreate(sc[s].activeSubdomains)
        /\ \A h \in DOMAIN sc[s].savedSubdomainMap :
             /\ sc[s].savedSubdomainMap[h] # 0
             /\ \E r \in subdomains :
                  r.hostname = h /\ r.rootDomainID = 1 /\ r.id = sc[s].savedSubdomainMap[h]

\* A root-domain scan whose map holds the row of the root domain, which was
\* there before, while the store has a row of the root domain that is not in
\* the active set and that the map leaves out.
C13_Witness ==
    \E s \in Reconciled :
        /\ sc[s].pc = "postshots"
        /\ sc[s].scanType = "root_domain"
        /\ \E r \in subdomains : r.scan = 0 /\ r.hostname \in DOMAIN sc[s].savedSubdomainMap
        /\ \E r \in subdomains : /\ r.hostname \notin sc[s].activeSubdomains
                                  /\ r.hostname \notin DOMAIN sc[s].savedSubdomainMap

\* The scans stopped by a fatal violation: no template, or an unknown kind.
FatalScans == {s \in Scans : sc[s].pc # "idle"
                             /\ (sc[s].tmpl.isNil \/ sc[s].scanType \notin ScanTypes)}

FatalSummary(s) ==
    IF sc[s].tmpl.isNil THEN <<"Internal error: Scan template missing">>
    ELSE <<"Internal error: Unknown scanType">>

\* No enumeration, liveness, crawl or fingerprint provider has been called
\* for scan s.
NoProviderCalled(s) ==
    /\ sc[s].allSubdomains = {} /\ sc[s].activeSubdomains = {} /\ ~sc[s].activeIsNil
    /\ sc[s].crawlCount = 0 /\ sc[s].sent = <<>> /\ sc[s].saver = "none"
    /\ sc[s].urlsToScan = {} /\ sc[s].techURLs = {}

\* Scan s has written no Subdomain, Endpoint, Parameter, Technology or
\* association row.
NoRowWritten(s) ==
    /\ \A r \in subdomains \cup endpoints \cup subdomainTechs : r.scan # s
    /\ parameters = {} /\ technologies = {}
    /\ sc[s].tx.state = "none"

C15_Original ==
    [][\A s \in Scans :
          \/ scanRows'[s].status = scanRows[s].status
          \/ scanRows[s].status = "none" /\ scanRows'[s].status = "pending"
          \/ scanRows[s].status = "pending" /\ scanRows'[s].status = "running"
          \/ scanRows[s].status = "running" /\ scanRows'[s].status \in Terminal]_vars

\* C15: as above, and besides a scan goes from pending directly to failed
\* when it was started without a template, and from pending directly to a
\* terminal status when the store rejected the update to running.  Nothing
\* leads back to pending and nothing leaves a terminal status.
C15_StatusOrder ==
    [][\A s \in Scans :
          \/ scanRows'[s].status = scanRows[s].status
          \/ scanRows[s].status = "none" /\ scanRows'[s].status = "pending"
          \/ scanRows[s].status = "pending" /\ scanRows'[s].status = "running"
          \/ scanRows[s].status = "running" /\ scanRows'[s].status \in Terminal
          \/ /\ scanRows[s].status = "pending" /\ scanRows'[s].status = "failed"
             /\ sc[s].tmpl.isNil
          \/ /\ scanRows[s].status = "pending" /\ scanRows'[s].status \in Terminal
             /\ faults > 0]_vars

\* A scan under a template has gone through running and has ended completed,
\* with no store call rejected.
C15_Witness ==
    \E s \in Scans :
        /\ sc[s].pc = "returned"
        /\ ~sc[s].tmpl.isNil
        /\ faults = 0
        /\ scanRows[s].status = "completed"
        /\ scanRows[s].completedAt

\* The entries that the enumeration, liveness, reconciler, crawl and
\* fingerprint stages add to a scan's error list.
StageErrors ==
    {"Subfinder", "Subdomain verification", "Subdomain Save/ID Fetch", "URL Scan",
     "Tech Detect Target Fetch (Subdomains)", "Tech Detect Target Fetch (Endpoints)",
     "Tech Detect"}

\* C16: a scan's error list only ever holds entries of the other stages,
\* whatever the outcomes of its capture attempts; a scan with a failed
\* capture that has ended is failed exactly when one of those stages left an
\* entry, and completed otherwise.
C16_CaptureNeverFails ==
    \A s \in Scans :
        /\ Range(sc[s].scanErrors) \subseteq StageErrors
        /\ (sc[s].captureFailed /\ sc[s].pc = "returned"
              /\ scanRows[s].status \in Terminal) =>
               (scanRows[s].status = "failed" <=> sc[s].scanErrors # <<>>)

\* A scan that crawled with screenshots enabled, wrote an endpoint, had a
\* capture fail and ended completed with an empty error list.
C16_Witness ==
    \E s \in Scans :
        /\ sc[s].pc = "returned"
        /\ sc[s].tmpl = CrawlShotsTemplate
        /\ sc[s].captureFailed
        /\ \E e \in endpoints : e.scan = s
        /\ sc[s].scanErrors = <<>>
        /\ scanRows[s].status = "completed"

(***************************************************************************)
(* Subdomain-targeted scans.                                               *)
(***************************************************************************)
SubdomainScans == {s \in Scans : sc[s].scanType = "subdomain"}

\* The scan has resolved its configuration.
Configured(s) == sc[s].pc \notin {"idle", "exec"} /\ ~sc[s].tmpl.isNil

\* The scan is at the reconciler or past it.
AtReconciler(s) == Configured(s) /\ sc[s].pc \notin {"initshots", "discover"}

\* C17: in a subdomain-targeted scan, whatever the template says, the
\* enumeration tool is resolved as disabled, neither the enumeration
\* provider nor the liveness provider is called (no candidate is ever
\* gathered, the scan is never in verification, and neither provider leaves
\* an error), and from the reconciler on the active set is exactly the
\* target hostname.
C17_SubdomainScanSkipsDiscovery ==
    \A s \in SubdomainScans :
        /\ Configured(s) => ~sc[s].subfinderEnabled
        /\ sc[s].allSubdomains = {}
        /\ sc[s].pc \notin {"verify", "panicked"}
        /\ ~sc[s].activeIsNil
        /\ \A e \in Range(sc[s].scanErrors) : e \notin {"Subfinder", "Subdomain verification"}
        /\ AtReconciler(s) => sc[s].activeSubdomains = {sc[s].targetHost}

\* A subdomain-targeted scan whose template enables enumeration with options
\* of its own has been through the reconciler and has ended.
C17_Witness ==
    \E s \in SubdomainScans :
        /\ sc[s].tmpl = DiscoveryTemplate
        /\ sc[s].targetHost = Api
        /\ sc[s].pc = "returned"
        /\ sc[s].activeSubdomains = {Api}
        /\ sc[s].savedSubdomainMap # EmptyMap
        /\ scanRows[s].status = "completed"

(***************************************************************************)
(* Configuration resolution.                                               *)
(***************************************************************************)
\* The defaults of the enumeration tool and of the crawl tool, as documented.
DocumentedSubfinder == ("threads" :> 10) @@ ("timeout" :> 30) @@ ("maxEnumerationTime" :> 5)
DocumentedKatana ==
    ("maxDepth" :> 3) @@ ("concurrency" :> 10) @@ ("parallelism" :> 10)
        @@ ("rateLimit" :> 150) @@ ("timeout" :> 10)

\* What the resolution of a scan's template has to yield.
ResolvedAsDocumented(rec) ==
    LET sub == rec.tmpl.sub
        url == rec.tmpl.url
    IN  /\ (sub.kind = "malformed" /\ rec.scanType = "root_domain") =>
               rec.subfinderEnabled /\ rec.subfinderOptions = DocumentedSubfinder
        /\ url.kind = "malformed" =>
               rec.urlScanEnabled /\ rec.katanaOptions = DocumentedKatana
        /\ (sub.kind = "json" /\ rec.subfinderEnabled) =>
               \A k \in DOMAIN DocumentedSubfinder \ DOMAIN sub.opts :
                   rec.subfinderOptions[k] = DocumentedSubfinder[k]
        /\ (url.kind = "json" /\ rec.urlScanEnabled) =>
               \A k \in DOMAIN DocumentedKatana \ DOMAIN url.opts :
                   rec.katanaOptions[k] = DocumentedKatana[k]

\* C18: the resolution of a template that is there never fails.  The step
\* that resolves it leaves the error list empty and the scan going, not
\* ended; an unparsable discovery blob of a root-domain scan yields
\* enumeration enabled with threads=10, timeout=30, maxEnumerationTime=5; an
\* unparsable crawl blob yields the crawl enabled with maxDepth=3,
\* concurrency=10, parallelism=10, rateLimit=150, timeout=10; and a key that
\* the options of a parsed, enabled tool do not give has its default.
C18_Step ==
    \A s \in Scans :
        (sc[s].pc = "exec" /\ sc'[s].pc # "exec" /\ ~sc[s].tmpl.isNil) =>
            /\ sc'[s].pc = "initshots"
            /\ sc'[s].scanErrors = <<>>
            /\ scanRows'[s].status \notin Terminal
            /\ ResolvedAsDocumented(sc'[s])

C18_ResolutionNeverFails == [][C18_Step]_vars

\* A root-domain scan whose discovery blob does not parse has enumerated with
\* the defaults, found a host and ended completed.
C18_Witness ==
    \E s \in RootScans :
        /\ sc[s].tmpl = MalformedTemplate
        /\ sc[s].subfinderEnabled
        /\ sc[s].subfinderOptions["maxEnumerationTime"] = 5
        /\ Api \in sc[s].allSubdomains
        /\ sc[s].pc = "returned"
        /\ scanRows[s].status = "completed"

(***************************************************************************)
(* The crawl of a subdomain-targeted scan.                                 *)
(***************************************************************************)
\* The results on the scan's target that went on to the saver.
SentOnTarget(s) == {i \in 1..Len(sc[s].sent) : sc[s].sent[i].host = sc[s].targetHost}

\* C19: in a subdomain-targeted scan with the crawl enabled, a successful
\* result on the target hostname passes the scope check: the callback never
\* rejects the target's hostname (and so the result goes on to be resolved
\* to the target's identifier and saved as its Endpoint).
C19_TargetResultInScope ==
    \A s \in SubdomainScans :
        (Configured(s) /\ sc[s].urlScanEnabled) => sc[s].targetHost \notin sc[s].rejected

\* A subdomain-targeted scan of a host below the root domain has crawled and
\* the callback has handled a successful result on the target.
C19_Witness ==
    \E s \in SubdomainScans :
        /\ sc[s].targetHost = Api
        /\ sc[s].urlScanEnabled
        /\ sc[s].pc = "crawlwait"
        /\ ~sc[s].crawlerFailed
        /\ sc[s].targetHost \in sc[s].rejected \/ SentOnTarget(s) # {}

\* What does hold: such a scan sends on no result at all, and a scan whose
\* target is the root domain's own row never rejects its target.
C19_SubdomainCrawlLosesAll ==
    \A s \in SubdomainScans :
        /\ sc[s].targetHost # RootDomainName => sc[s].sent = <<>>
        /\ sc[s].targetHost = RootDomainName => sc[s].targetHost \notin sc[s].rejected

(***************************************************************************)
(* Errors of the crawl engine.                                             *)
(***************************************************************************)
\* C20 as stated: a scan for which the crawl of a seed failed has a crawl
\* entry in its error list when it has ended (and so ends failed with the
\* error in its summary).
C20_Original ==
    \A s \in Scans :
        (sc[s].crawlErr /\ sc[s].pc = "returned") => "URL Scan" \in Range(sc[s].scanErrors)

\* C20 amended: a failure of the crawl of a seed is only logged.  A scan for
\* which the crawl of a seed failed never has a crawl entry in its error
\* list, the callback can still be called for the seeds that remain, and the
\* crawl entry is there only when the crawler could not be created, in
\* which case no seed was crawled.
C20_SeedFailureOnlyLogged ==
    \A s \in Scans :
        /\ sc[s].crawlErr => "URL Scan" \notin Range(sc[s].scanErrors)
        /\ (sc[s].crawlErr /\ sc[s].pc = "crawl" /\ sc[s].crawlCount < MaxCrawlResults)
               => ENABLED OnResult(s)
        /\ "URL Scan" \in Range(sc[s].scanErrors) => sc[s].sent = <<>> /\ ~sc[s].crawlErr

\* The crawl of a seed failed, results of the other seeds were saved as
\* endpoints, and the scan has ended completed with no error.
C20_Witness ==
    \E s \in Scans :
        /\ sc[s].crawlErr
        /\ sc[s].sent # <<>>
        /\ endpoints # {}
        /\ sc[s].pc = "returned"
        /\ sc[s].scanErrors = <<>>
        /\ scanRows[s].status = "completed"

(***************************************************************************)
(* The crawl phase's batch creation of subdomains.                         *)
(***************************************************************************)
\* The consumer of scan s performs its batch create in this step.
BatchCreateStep(s) == sc[s].saver = "create" /\ sc'[s].saver = "refetch"

\* C21 as stated: the batch create of the crawl phase leaves every row that
\* is already there untouched.
C21_OriginalStep ==
    \A s \in Scans : BatchCreateStep(s) => subdomains \subseteq subdomains'

C21_AmendedStep ==
    \A s \in Scans : BatchCreateStep(s) =>
        /\ \A r \in subdomains :
              IF r.hostname \in sc[s].newSubdomainsToCreate
              THEN [r EXCEPT !.scan = s, !.active = TRUE] \in subdomains'
              ELSE r \in subdomains'
        /\ \A r \in subdomains' :
              \/ r.hostname \in sc[s].newSubdomainsToCreate /\ r.scan = s
              \/ r \in subdomains
        /\ \A r1, r2 \in subdomains' :
              (r1.hostname = r2.hostname /\ r1.rootDomainID = r2.rootDomainID) => r1 = r2

Intended(s) == ModelsToCreate(sc[s].activeSubdomains)

\* C22: the reconciler leaves every row that is already there as it is and
\* never has two rows for one hostname; it reports an error only when a
\* store call of its own fails or there is nothing to insert; and when its
\* re-read succeeds, each intended hostname that had a row is mapped to that
\* row's identifier.
C22_Step ==
    \A s \in Scans :
        /\ (sc[s].pc = "save" /\ sc'[s].pc # "save") =>
              /\ subdomains \subseteq subdomains'
              /\ \A r1, r2 \in subdomains' :
                    (r1.hostname = r2.hostname /\ r1.rootDomainID = r2.rootDomainID)
                        => r1 = r2
              /\ sc'[s].scanErrors # sc[s].scanErrors =>
                    faults' > faults \/ Intended(s) = {}
        /\ (sc[s].pc = "fetchids" /\ sc'[s].pc # "fetchids") =>
              /\ subdomains' = subdomains
              /\ sc'[s].scanErrors # sc[s].scanErrors => faults' > faults
              /\ sc'[s].scanErrors = sc[s].scanErrors =>
                    \A r \in subdomains : r.hostname \in Intended(s) =>
                        /\ r.hostname \in DOMAIN sc'[s].savedSubdomainMap
                        /\ sc'[s].savedSubdomainMap[r.hostname] = r.id

C22_ExistingRowKept == [][C22_Step]_vars

\* A scan has reconciled a hostname whose row an earlier scan had left: the
\* row is as it was, there is one row, no error, and the map gives its id.
C22_Witness ==
    \E s \in RootScans :
        /\ sc[s].pc = "postshots"
        /\ Api \in sc[s].activeSubdomains
        /\ SubdomainRow(2, Api, 0) \in subdomains
        /\ Cardinality({r \in subdomains : r.hostname = Api}) = 1
        /\ sc[s].scanErrors = <<>>
        /\ Api \in DOMAIN sc[s].savedSubdomainMap
        /\ sc[s].savedSubdomainMap[Api] = 2

(***************************************************************************)
(* Attribution of the rows the crawl phase writes.                         *)
(***************************************************************************)
\* The result the consumer of scan s is saving.
Current(s) == Head(sc[s].finalEndpointsToCreate)

\* C23: every Endpoint row the crawl phase creates or updates references a
\* Subdomain row of the root domain whose hostname is the hostname of the
\* result being saved, and every Parameter row it creates or updates
\* references the Endpoint created or found for that same result.
C23_Step ==
    \A s \in Scans :
        /\ (sc[s].saver = "epwrite" /\ sc'[s].saver # "epwrite") =>
              \A e \in endpoints' \ endpoints :
                  /\ \E r \in subdomains :
                        /\ r.id = e.subdomainID
                        /\ r.hostname = Current(s).res.host
                        /\ r.rootDomainID = 1
                  /\ sc'[s].saver = "pfind" => sc'[s].epID = e.id
        /\ (sc[s].saver = "pwrite" /\ sc'[s].saver # "pwrite") =>
              \A q \in parameters' \ parameters :
                  /\ q.endpointID = sc[s].epID
                  /\ \E e \in endpoints :
                        /\ e.id = q.endpointID
                        /\ e.subdomainID = Current(s).subdomainID
                  /\ q.name \in Current(s).res.params

C23_NoMisattribution == [][C23_Step]_vars

\* With rows for two hostnames in the store, a scan has saved an endpoint of
\* the second hostname and a parameter of that endpoint.
C23_Witness ==
    \E s \in Scans, e \in endpoints, q \in parameters, r \in subdomains :
        /\ Cardinality(subdomains) >= 2
        /\ e.scan = s /\ q.scan = s
        /\ r.hostname = Api /\ r.id = 2
        /\ e.subdomainID = r.id
        /\ q.endpointID = e.id
        /\ sc[s].saver = "done"

(***************************************************************************)
(* The upsert of endpoints by natural key.                                 *)
(***************************************************************************)
\* The rows with the natural key of the result scan s is saving.
SameKey(s) ==
    {r \in endpoints : /\ r.subdomainID = Current(s).subdomainID
                       /\ r.path = Current(s).res.path
                       /\ r.method = Current(s).res.method}

\* The write of FirstOrCreate for the result scan s is saving has succeeded.
EndpointSaved(s) ==
    sc[s].saver = "epwrite" /\ sc'[s].saver # "epwrite" /\ faults' = faults

\* The upsert by natural key, for one saved result.
UpsertedByKey(s) ==
    IF SameKey(s) # {}
    THEN /\ {r.id : r \in endpoints'} = {r.id : r \in endpoints}
         /\ \A r \in SameKey(s) :
               [r EXCEPT !.status = Current(s).res.status, !.scan = s] \in endpoints'
         /\ \A r \in endpoints \ SameKey(s) : r \in endpoints'
    ELSE /\ endpoints \subseteq endpoints'
         /\ Cardinality(endpoints' \ endpoints) = 1
         /\ \A r \in endpoints' \ endpoints :
               /\ r.subdomainID = Current(s).subdomainID
               /\ r.path = Current(s).res.path
               /\ r.method = Current(s).res.method
               /\ r.status = Current(s).res.status
               /\ r.scan = s

\* C24: a saved result whose (subdomain, path, method) matches an Endpoint
\* row updates the status and scan reference of that row, which keeps its
\* identifier, and adds no row; a saved result that matches none adds
\* exactly one row with its key; so two results with one key yield one row.
C24_Step == \A s \in Scans : EndpointSaved(s) => UpsertedByKey(s)

C24_UpsertByNaturalKey == [][C24_Step]_vars

\* What does hold: the upsert by natural key of the results with a path.
C24_StepWithPath ==
    \A s \in Scans : (EndpointSaved(s) /\ Current(s).res.path # "") => UpsertedByKey(s)

C24_UpsertWhenPathGiven == [][C24_StepWithPath]_vars

\* A crawl has reported a page of a host and then the host's URL without a
\* path; both were saved without a store error, and the host has one
\* Endpoint row, that of the page.
C24_Witness ==
    \E s \in Scans :
        /\ sc[s].saver = "done"
        /\ faults = 0
        /\ Len(sc[s].sent) = 2
        /\ sc[s].sent[1].host = sc[s].sent[2].host
        /\ sc[s].sent[1].path # ""
        /\ sc[s].sent[2].path = ""
        /\ Cardinality(endpoints) = 1
        /\ \A e \in endpoints : e.path = sc[s].sent[1].path

(***************************************************************************)
(* The return of the crawl phase.                                          *)
(***************************************************************************)
\* Program points of ExecuteSubdomainScan inside the call of ExecuteURLScan.
InCrawlPhase(s) == sc[s].pc \in {"crawl", "crawlwait"}

\* The consumer of scan s has nothing left to do.
ConsumerFinished(s) ==
    /\ sc[s].saver = "done"
    /\ sc[s].resultsChan = <<>>
    /\ sc[s].finalEndpointsToCreate = <<>>
    /\ sc[s].params = {}
    /\ sc[s].shotTasks = {}

\* C25: the crawl phase returns only when the producer has finished and the
\* channel is closed, the consumer has drained the channel and finished its
\* writes, and every screenshot task it spawned has completed, on the path
\* where the crawler could not be created too; outside the phase there is
\* no consumer, and the producer is left only by closing the channel.
C25_Step ==
    \A s \in Scans :
        /\ (InCrawlPhase(s) /\ ~InCrawlPhase(s)') =>
              /\ sc[s].pc = "crawlwait"
              /\ sc[s].chanClosed
              /\ ConsumerFinished(s)
        /\ (sc[s].pc = "crawl" /\ sc'[s].pc # "crawl") =>
              sc'[s].pc = "crawlwait" /\ sc'[s].chanClosed
        /\ ~InCrawlPhase(s) => sc[s].saver = "none" /\ sc[s].shotTasks = {}

C25_ReturnsAfterJoin == [][C25_Step]_vars

\* The crawl phase has returned after its consumer saved an endpoint and a
\* screenshot task of that endpoint left its row.
C25_Witness ==
    \E s \in Scans, e \in endpoints, p \in screenshots :
        /\ sc[s].pc = "tech"
        /\ sc[s].sent # <<>>
        /\ e.scan = s
        /\ p.scan = s /\ p.endpointID = e.id

(***************************************************************************)
(* The handoff between the crawler's callbacks and the consumer.           *)
(***************************************************************************)
\* A callback of scan s is at its send and the buffer is full.
SendBlocked(s) ==
    sc[s].senders # <<>> /\ Len(sc[s].resultsChan) >= Capacity(mode) /\ ~sc[s].chanClosed

C26_Step ==
    \A s \in Scans :
        \* the consumer stays in its receive loop until the channel is closed
        \* and drained
        /\ (sc[s].saver = "collect" /\ sc'[s].saver # "collect") =>
              sc[s].chanClosed /\ sc[s].resultsChan = <<>>
        \* no send after the close: nothing is added to a closed channel and
        \* no callback is at its send when the channel is closed
        /\ sc[s].chanClosed => Len(sc'[s].resultsChan) <= Len(sc[s].resultsChan)
        /\ sc'[s].chanClosed => sc'[s].senders = <<>>
        /\ InCrawlPhase(s) => ~crashed'
        \* the channel is closed once on every path through the phase
        /\ sc'[s].closes <= 1
        /\ (InCrawlPhase(s) /\ ~InCrawlPhase(s)') => sc[s].closes = 1

\* C26: the handoff is free of deadlock and closes cleanly.  A callback
\* that is at its send always gets its result into the channel, also when
\* it finds the buffer full; the consumer receives until the channel is
\* closed and drained; the channel is closed exactly once on every path
\* through the phase; and no send happens after the close.
C26_HandoffClean ==
    /\ [][C26_Step]_vars
    /\ \A s \in Scans : (sc[s].senders # <<>>) ~> (sc[s].senders = <<>>)
    /\ \A s \in Scans : InCrawlPhase(s) ~> (sc[s].pc = "tech")

\* A callback is at its send with the buffer full while the consumer has
\* not begun to receive, and no further callback will come.
C26_Witness ==
    \E s \in Scans :
        /\ SendBlocked(s)
        /\ sc[s].crawlCount = MaxCrawlResults
        /\ sc[s].saver = "load"
        /\ sc[s].pc = "crawl"

(***************************************************************************)
(* The order of the phases of one scan.                                    *)
(***************************************************************************)
\* The program points of ExecuteSubdomainScan in the order of its text.
PhaseOrder ==
    <<"idle", "exec", "initshots", "discover", "verify", "save", "fetchids", "postshots",
      "urlscan", "crawl", "crawlwait", "tech", "techscan", "techsave", "techprocess",
      "final", "returned", "panicked">>

Rank(pc) == CHOOSE i \in DOMAIN PhaseOrder : PhaseOrder[i] = pc

\* The program points at which a scan writes rows of each kind.
ScreenshotPoints == {"initshots", "postshots", "crawlwait"}
ReconcilerPoints == {"save"}
CrawlPoints == {"crawl", "crawlwait"}
FingerprintPoints == {"techsave", "techprocess"}

\* The rows of a table that a step adds or changes.
Written(old, new) == new \ old

\* C27: the phases of one scan run strictly in order and never overlap.  A
\* scan never goes back to an earlier program point; the screenshots of the
\* initial assets are written before discovery starts; the reconciler's
\* insert and re-read come before the post-discovery screenshots, the crawl
\* and the fingerprint phase; rows of the crawl are written only inside the
\* crawl phase and rows of the fingerprint phase only inside that phase,
\* after the crawl has returned; and the step that writes the terminal
\* status is the scan's last.
C27_Step ==
    \A s \in Scans :
        /\ Rank(sc'[s].pc) >= Rank(sc[s].pc)
        /\ \A p \in Written(screenshots, screenshots') :
              p.scan = s => sc[s].pc \in ScreenshotPoints
        /\ \A r \in Written(subdomains, subdomains') :
              r.scan = s => sc[s].pc \in ReconcilerPoints \cup CrawlPoints \cup FingerprintPoints
        /\ \A e \in Written(endpoints, endpoints') : e.scan = s => sc[s].pc \in CrawlPoints
        /\ \A q \in Written(parameters, parameters') : q.scan = s => sc[s].pc \in CrawlPoints
        /\ (technologies' # technologies \/ subdomainTechs' # subdomainTechs) =>
              \E u \in Scans : sc[u].pc \in FingerprintPoints
        /\ sc[s].saver # "none" => sc[s].pc \in CrawlPoints
        /\ (scanRows'[s].status \in Terminal /\ scanRows'[s] # scanRows[s]) =>
              sc'[s].pc = "returned"
        /\ sc[s].pc = "returned" => sc'[s] = sc[s] /\ scanRows'[s] = scanRows[s]

C27_PhasesInOrder == [][C27_Step]_vars

\* A scan that crawled and took screenshots after discovery and in the crawl
\* has written its terminal status.
C27_Witness ==
    \E s \in Scans :
        /\ sc[s].pc = "returned"
        /\ scanRows[s].status \in Terminal
        /\ \E r \in subdomains : r.scan = s
        /\ \E e \in endpoints : e.scan = s
        /\ \E p \in screenshots : p.scan = s

(***************************************************************************)
(* Technology rows.                                                        *)
(***************************************************************************)
\* A name with its letters in lower case.
Folded(name) == IF name \in {"Nginx", "nginx"} THEN "nginx"
                ELSE IF name \in {"PHP", "php"} THEN "php" ELSE name

\* The names a scan detected, on any URL.
DetectedNames(s) == UNION {sc[s].techDetected[u] : u \in DOMAIN sc[s].techDetected}

\* C28: after any fingerprint phases, those of scans running at the same
\* time included, no two Technology rows have the same lower-cased name, and
\* a detected name is associated with the one row of its lower-cased name,
\* whatever its letter case.
C28_TechnologyPerName ==
    /\ \A r1, r2 \in technologies :
          (Folded(r1.name) = Folded(r2.name) \/ r1.id = r2.id) => r1 = r2
    /\ \A s \in Scans : \A n \in DOMAIN sc[s].processedTechs :
          /\ \E d \in DetectedNames(s) : Folded(d) = n
          /\ \E r \in TxTechnologies(s) :
                r.id = sc[s].processedTechs[n] /\ r.name = n
    /\ \A j \in subdomainTechs : \E r \in technologies : r.id = j.technologyID

\* Two transactions are open at once: one has created the row of a name, the
\* other detected the name in another letter case and its create was refused.
C28_Witness ==
    \E s, u \in Scans :
        /\ s # u
        /\ sc[s].tx.state = "open" /\ sc[u].tx.state = "open"
        /\ \E r \in sc[s].tx.technologies : r.name = "nginx"
        /\ "Nginx" \in DetectedNames(s)
        /\ DetectedNames(u) = {"nginx"}
        /\ sc[u].tx.writeFailed
        /\ sc[u].pc = "techprocess"

(***************************************************************************)
(* Subdomain rows of the fingerprint phase.                                *)
(***************************************************************************)
\* The hostnames with a row of the root domain.
RowHosts == {r.hostname : r \in subdomains}

\* The hostnames of the URLs a scan has detections on.
DetectedHosts(s) == {u.host : u \in DOMAIN sc[s].techDetected}

\* C29: during fingerprint persistence the only Subdomain row that may be
\* created is the one of the apex hostname, and only when the root domain has
\* no such row; the technologies detected on any other hostname without a
\* Subdomain row are skipped: no Subdomain row and no association row is
\* created for it.
C29_Step ==
    \A s \in Scans :
        sc[s].pc \in FingerprintPoints =>
            /\ \A r \in Written(subdomains, subdomains') \cup sc'[s].tx.subdomains :
                  r.scan = s => /\ r.hostname = RootDomainName
                                /\ RootDomainName \notin RowHosts
            /\ Cardinality({r \in Written(subdomains, subdomains') : r.scan = s}) <= 1
            /\ \A j \in Written(subdomainTechs, subdomainTechs') :
                  j.scan = s => \E r \in subdomains' :
                      /\ r.id = j.subdomainID
                      /\ r.hostname \in DetectedHosts(s)
                      /\ r.hostname \in RowHosts \cup {RootDomainName}
            /\ \A e \in Range(sc'[s].joinEntriesToCreate) :
                  \E r \in subdomains \cup sc'[s].tx.subdomains :
                      /\ r.id = e.subdomainID
                      /\ r.hostname \in DetectedHosts(s)

C29_OnlyApexRowCreated == [][C29_Step]_vars

\* A call with detections on the apex hostname and on a hostname without a
\* row has committed: the apex row is new and has an association row, the
\* other hostname has neither.
C29_Witness ==
    \E s \in Scans :
        /\ sc[s].pc = "final"
        /\ sc[s].tx.state = "committed"
        /\ DetectedHosts(s) = {Apex, Evil}
        /\ RowHosts = {Apex}
        /\ \E r \in subdomains : r.hostname = Apex /\ r.scan = s
        /\ \E j \in subdomainTechs : j.scan = s

(***************************************************************************)
(* The transaction of saveTechnologies.                                    *)
(***************************************************************************)
\* saveTechnologies has returned.
TechSaveReturned(s) == sc[s].pc \notin FingerprintPoints

\* C30: saveTechnologies never returns with its transaction left open: on
\* every return path after Begin, the error returns included, the
\* transaction has been committed or rolled back.
C30_NoOpenTransaction ==
    \A s \in Scans : TechSaveReturned(s) => sc[s].tx.state # "open"

\* The batch insert of the association rows failed and saveTechnologies
\* returned its error: the transaction is open and holds the Technology rows
\* it created.
C30_Witness ==
    \E s \in Scans :
        /\ sc[s].pc = "final"
        /\ sc[s].tx.state = "open"
        /\ sc[s].tx.technologies # {}
        /\ sc[s].tx.writeFailed
        /\ technologies = {}

(***************************************************************************)
(* The deadlines of the discovery stage.                                   *)
(***************************************************************************)
\* runSubfinder has returned to its goroutine because its deadline passed.
TimedOut(s) ==
    /\ sc[s].pc = "discover"
    /\ sc[s].enum.state = "returned"
    /\ sc[s].enum.outcome = "deadline"

\* C31: a timeout of the enumeration provider is not fatal and keeps the
\* partial results: every hostname produced before the deadline is merged
\* into the candidate set, the scan's error list gets no entry for it, and
\* the scan goes on to the liveness verification.
C31_Step ==
    \A s \in Scans :
        (TimedOut(s) /\ sc'[s].pc # sc[s].pc) =>
            /\ sc'[s].pc = "verify"
            /\ sc[s].enum.found \subseteq sc'[s].allSubdomains
            /\ sc'[s].allSubdomains = sc[s].enum.found \cup {sc[s].targetHost}
            /\ sc'[s].scanErrors = sc[s].scanErrors
            /\ scanRows'[s] = scanRows[s]

C31_TimeoutKeepsPartial == [][C31_Step]_vars

\* The provider timed out after it had produced a hostname.
C31_Witness ==
    \E s \in Scans : TimedOut(s) /\ sc[s].enum.found = {Api} /\ sc[s].scanErrors = <<>>

\* The deadline of the scan's context passed before the liveness
\* verification was called.
ExpiredBeforeVerify(s) == sc[s].pc = "verify" /\ sc[s].ctxDone

\* C32: the one timeout of the scan bounds the whole discovery and
\* verification stage: once it has expired the enumeration call and the
\* verification call are cancelled and return, and the scan goes on to
\* persistence with what was found until then; a verification called after
\* the deadline probes no hostname.
C32_Step ==
    \A s \in Scans :
        /\ (sc[s].pc = "discover" /\ sc[s].ctxDone /\ sc'[s].pc # sc[s].pc) =>
                sc'[s].pc = "verify"
        /\ (ExpiredBeforeVerify(s) /\ sc'[s].pc # sc[s].pc /\ ~crashed') =>
                /\ sc'[s].pc = "save"
                /\ sc'[s].activeSubdomains \subseteq {sc[s].targetHost}

C32_TimeoutBoundsStage == [][C32_Step]_vars

\* The deadline has passed, and the verification is about to probe a
\* hostname besides the target.
C32_Witness ==
    \E s \in Scans : ExpiredBeforeVerify(s) /\ Api \in sc[s].allSubdomains

(***************************************************************************)
(* Screenshot eligibility.                                                 *)
(***************************************************************************)
\* The path of the URL, without its query and in lower case, ends in an
\* excluded extension.
AssetPath(u) == u.path # "" /\ PathExtension(u.path) \in ExcludedExtensions

\* C33: ShouldScreenshot skips a URL exactly when its path, query stripped
\* and letter case ignored, ends in an excluded extension; every other URL
\* is capturable, a URL with no path whose hostname ends in an excluded
\* suffix included.
C33_Step ==
    \A s \in Scans : \A u \in sc[s].urlsToScan \ sc'[s].urlsToScan :
        mode = "screen" => (u \in sc'[s].shotTasks <=> ~AssetPath(u))

C33_SkippedExactlyAssets == [][C33_Step]_vars

(***************************************************************************)
(* Screenshot rows.                                                        *)
(***************************************************************************)
\* The step is screenshotWG.Wait() of saveURLScanResults returning.
CrawlShotsJoined(s) == sc[s].saver = "epfind" /\ sc'[s].saver = "done"

\* The rows a step adds for scan s.
NewShots(s) == {p \in Written(screenshots, screenshots') : p.scan = s}

\* C34: every Screenshot row has exactly one of its subdomain reference and
\* its endpoint reference set and carries the ID of the scan that captured
\* it; a row is recorded only for a capture that succeeded, a failed capture
\* leaves none.
C34_Step ==
    /\ \A p \in Written(screenshots, screenshots') :
          /\ (p.subdomainID = 0) # (p.endpointID = 0)
          /\ p.subdomainID # 0 => \E r \in subdomains : r.id = p.subdomainID
          /\ p.endpointID # 0 => \E e \in endpoints : e.id = p.endpointID
          /\ p.scan \in Scans
          /\ sc[p.scan].pc \in ScreenshotPoints \cup CrawlPoints
          /\ ShouldScreenshot(p.url)
    /\ \A s \in Scans :
          /\ CrawlShotsJoined(s) =>
                /\ \A p \in NewShots(s) :
                      ShotTask(p.url, p.subdomainID, p.endpointID) \in sc[s].shotTasks
                /\ Cardinality(NewShots(s)) < Cardinality(sc[s].shotTasks) =>
                      sc'[s].captureFailed
          /\ (sc'[s].captureFailed /\ ~sc[s].captureFailed /\ CrawlShotsJoined(s)) =>
                Cardinality(NewShots(s)) < Cardinality(sc[s].shotTasks)
          /\ (CrawlShotsJoined(s) /\ ~sc'[s].captureFailed) =>
                Cardinality(NewShots(s)) = Cardinality(sc[s].shotTasks)
          /\ (~sc[s].captureFailed /\ sc'[s].captureFailed) =>
                sc[s].tmpl.ScreenshotEnabled

C34_RowsOfCaptures == [][C34_Step]_vars /\ [](screenshots = {} \/ \E s \in Scans : sc[s].pc # "idle")

\* A crawl's capture of an endpoint failed after an earlier capture of a
\* subdomain had left its row: the table has the one row.
C34_Witness ==
    \E s \in Scans :
        /\ sc[s].saver = "done"
        /\ sc[s].captureFailed
        /\ endpoints # {}
        /\ \E p \in screenshots : p.scan = s /\ p.subdomainID # 0 /\ p.endpointID = 0
        /\ \A p \in screenshots : p.endpointID = 0

(***************************************************************************)
(* The seeds of the crawl.                                                 *)
(***************************************************************************)
\* The program points after line 813.
AfterSeeding == {"crawl", "crawlwait", "tech", "techscan", "techsave", "techprocess",
                 "final", "returned"}

\* ExecuteURLScan was called by scan s.
Seeded(s) == sc[s].seedURLs # <<>>

\* The two URLs of each of the hostnames.
Variants(hosts) == UNION {BothSchemes(h, "") : h \in hosts}

\* Discovery tooling is disabled, the root domain had no subdomain, and no
\* store call fails.
ApexOnlyScenario(s) ==
    /\ sc[s].scanType = "root_domain"
    /\ ~sc[s].subfinderEnabled
    /\ \A r \in subdomains : r.scan # 0
    /\ mode = "seeds"

Ended(s) == scanRows[s].status \notin Terminal /\ scanRows'[s].status \in Terminal

C36_Step ==
    \A s \in Scans :
        /\ scanRows'[s].completedAt <=> scanRows'[s].status \in Terminal
        /\ scanRows'[s].status \in Terminal => scanRows'[s].summary # <<>>
        /\ Ended(s) =>
              /\ ~scanRows[s].completedAt
              /\ scanRows[s].summary = <<>>
        /\ (Ended(s) /\ sc[s].pc = "final") =>
              scanRows'[s].summary = IF sc[s].scanErrors # <<>>
                                     THEN sc[s].scanErrors
                                     ELSE <<"Scan completed successfully">>

\* C36: the completion time and the summary are written with the terminal
\* status, in the one update that sets it: a scan row has a completion time
\* if and only if its status is completed or failed, and a row in a terminal
\* status has a summary that is not empty, the collected error messages or
\* the note of success.
C36_CompletionWithStatus == [][C36_Step]_vars

\* A scan has ended failed with its messages, its row stamped.
C36_Witness ==
    \E s \in Scans :
        /\ scanRows[s].status = "failed"
        /\ scanRows[s].completedAt
        /\ sc[s].pc = "returned"
        /\ ~sc[s].tmpl.isNil
        /\ scanRows[s].summary = sc[s].scanErrors
        /\ Len(scanRows[s].summary) > 0

(***************************************************************************)
(* A scan in a terminal status.                                            *)
(***************************************************************************)
\* No goroutine of scan s is running: ExecuteSubdomainScan has returned, and
\* with it the enumeration goroutine, the crawl's callbacks and consumer and
\* the screenshot goroutines.
Quiescent(s) ==
    /\ sc[s].pc = "returned"
    /\ sc[s].enum.state = "none"
    /\ sc[s].saver = "none"
    /\ sc[s].senders = <<>>
    /\ sc[s].shotTasks = {}
    /\ sc[s].joinEntriesToCreate = <<>>

\* The rows of all tables but Technology that a step writes for scan s.
WrittenFor(s) ==
    {r \in Written(subdomains, subdomains') \cup Written(endpoints, endpoints')
           \cup Written(parameters, parameters')
           \cup Written(subdomainTechs, subdomainTechs')
           \cup Written(screenshots, screenshots') : r.scan = s}

C37_Step ==
    \A s \in Scans :
        scanRows[s].status \in Terminal =>
            /\ Quiescent(s)
            /\ scanRows'[s] = scanRows[s]
            /\ sc'[s] = sc[s]
            /\ WrittenFor(s) = {}
            /\ technologies' # technologies =>
                  \E u \in Scans \ {s} : sc[u].pc \in FingerprintPoints

\* C37: a terminal status is final and the scan is then quiescent: the
\* status is not written again, no goroutine of the scan (crawl consumer,
\* fingerprint persistence, screenshot capture) is running, and no
\* Subdomain, Endpoint, Parameter, Technology or Screenshot row is written
\* for it afterwards.
C37_TerminalIsFinal == [][C37_Step]_vars

\* A scan whose crawl took a screenshot of an endpoint has completed.
C37_Witness ==
    \E s \in Scans :
        /\ scanRows[s].status = "completed"
        /\ sc[s].saver = "none"
        /\ \E p \in screenshots : p.scan = s /\ p.endpointID # 0

(***************************************************************************)
(* The map filled by the callbacks of the httpx runner.                    *)
(***************************************************************************)
\* C38: the active set that verifyActiveSubdomains builds is never written
\* by two result callbacks at the same time, also when the runner calls
\* OnResult from several of its worker threads.
C38_ExclusiveWrites ==
    \A s \in Scans : Cardinality(sc[s].httpx.writing) <= 1

\* Two callbacks were in the map write together and the runtime ended the
\* process.
C38_Witness ==
    /\ crashed
    /\ \E s \in Scans :
          /\ sc[s].httpx.state = "running"
          /\ Cardinality(sc[s].httpx.writing) = 2

(***************************************************************************)
(* Which phases a template enables.                                        *)
(***************************************************************************)
\* The configuration is empty, or does not parse, or parses with the section
\* enabled and the entry of the phase's tool present and enabled.
BlobEnables(blob) ==
    \/ blob.kind \in {"empty", "malformed"}
    \/ blob.kind = "json" /\ blob.enabled /\ blob.tool = "enabled"

\* Scan s leaves the program point pc with this step.
Leaves(s, pc) == sc[s].pc = pc /\ sc'[s].pc # pc

C39_Step ==
    \A s \in Scans :
        /\ Leaves(s, "urlscan") =>
              (sc'[s].saver = "load" <=> BlobEnables(sc[s].tmpl.url))
        /\ (sc[s].enum.state = "none" /\ sc'[s].enum.state # "none") =>
              /\ sc[s].scanType = "root_domain"
              /\ sc'[s].enum.state = "returned" <=> BlobEnables(sc[s].tmpl.sub)
        /\ (Leaves(s, "discover") /\ sc'[s].pc = "verify") =>
              sc[s].enum.state \in {"returned", "skipped"}
        /\ Leaves(s, "tech") =>
              /\ sc'[s].pc = "techscan" => sc[s].tmpl.TechDetectEnabled
              /\ ~sc[s].tmpl.TechDetectEnabled =>
                    /\ sc'[s] = [sc[s] EXCEPT !.pc = "final"]
                    /\ faults' = faults
              /\ (sc[s].tmpl.TechDetectEnabled /\ faults' = faults
                     /\ \E r \in subdomains : r.hostname = sc[s].targetHost) =>
                    sc'[s].pc = "techscan"

\* C39: which phases run is decided by the template alone.  The crawl runs
\* exactly when the URL configuration is empty, does not parse, or parses
\* with the section enabled and a katana entry present and enabled; a
\* root-domain scan calls the enumeration provider exactly when the
\* subdomain configuration is empty, does not parse, or parses with the
\* section enabled and a subfinder entry present and enabled; the
\* fingerprint phase runs exactly when the technology-detection flag is set.
C39_PhasesByTemplate == [][C39_Step]_vars

\* A root-domain scan under a template with no subdomain configuration and
\* an enabled URL section without a katana entry: it enumerated, and went
\* past the crawl and the fingerprint phase without running them.
C39_Witness ==
    \E s \in Scans :
        /\ sc[s].tmpl = DefaultsTemplate
        /\ sc[s].pc = "final"
        /\ Api \in sc[s].activeSubdomains
        /\ sc[s].seedURLs = <<>>
        /\ sc[s].urlsToScan = {}

====
